---- MODULE Spec2Model ----
(***************************************************************************)
(* Digest assembly and delivery pipeline of audio-digest-hub.              *)
(*                                                                         *)
(* The model follows src/src/audiobooks/generate_audiobook.py: the date    *)
(* loop of main, generate_and_upload_audio (size-driven partitioning and   *)
(* the per-Part export/upload loop), upload_audiobook (bounded retry with  *)
(* exponential backoff) and cleanup.  Collaborators (the remote store, the *)
(* mailbox, the synthesis engine, the encoder, the local file system) are  *)
(* nondeterministic choices over the results the code distinguishes.       *)
(*                                                                         *)
(* Sizes are whole megabytes, durations whole milliseconds.                *)
(***************************************************************************)
EXTENDS Integers, Sequences, FiniteSets, TLC

(***************************************************************************)
(* Bounds of the model.                                                    *)
(***************************************************************************)
MaxDates == 2
MaxDurationMs == 3
MaxBlocks == 3
MaxChunkLen == 5
MaxMaxLen == 3
MaxFinalChunks == 3
MaxDay == 4
MaxListed == 3

(***************************************************************************)
(* Program constants.                                                      *)
(***************************************************************************)
MAX_UPLOAD_SIZE_MB == 15
max_retries_one_more == 5 + 1
max_retries == 5
XTTS_TOKEN_LIMIT == 390
\* MAX_UPLOAD_SIZE_MB of upload_mp3.py
upload_mp3_MAX_UPLOAD_SIZE_MB == 35
\* upload_mp3.upload_single_file and test_upload.upload_audiobook
upload_mp3_max_retries == 5
upload_mp3_base_delay_seconds == 10
test_upload_max_retries == 5
test_upload_base_delay_seconds == 10
base_delay_seconds == 10

\* Encoded sizes (MB) the encoder may report: around the ceiling, around
\* twice and three times the ceiling, and the 37 MB scenario.
Mp3SizesMB == {14, 15, 16, 30, 31, 37, 38, 45, 46}

\* Responses of the remote store, <<status code, body parses as JSON>>.
Responses == {<<200, TRUE>>, <<200, FALSE>>, <<304, TRUE>>, <<304, FALSE>>,
              <<403, FALSE>>, <<500, FALSE>>, <<503, FALSE>>}

\* Local artifact names: <<kind, date, part, of>>.
TEMP_WAV_FILE == <<"wav", 0, 0, 0>>
\* os.path.join(ARCHIVE_FOLDER, f"{UPLOAD_MP3_BASENAME}*.mp3"): a literal
\* path that contains an asterisk.
TEMP_OUTPUT_PATTERN == <<"temp_output*.mp3", 0, 0, 0>>
SingleFile(d) == <<"mp3", d, 0, 0>>
ChunkFile(d, part, of) == <<"mp3", d, part, of>>

\* base_title = f"Daily Digest for {date_str}"
BaseTitle(d) == <<"Daily Digest for", d>>
ChunkTitleZeroBased(d, part, of) ==
    BaseTitle(d) \o <<"(Part", part - 1, "of", of, ")">>
\* chunk_title = f"{base_title} (Part {i+1} of {num_chunks})"
ChunkTitle(d, part, of) == BaseTitle(d) \o <<"(Part", part, "of", of, ")">>

VARIABLES
    num_dates,          \* len(dates_to_process)
    date_idx,           \* position of process_date in dates_to_process, 1-based
    pc,                 \* control location
    files_created,      \* main: list handed to cleanup
    wav_exists,         \* os.path.exists(TEMP_WAV_FILE)
    mp3_size_mb,        \* generate_and_upload_audio locals
    total_duration_ms,  \* len(full_audio_segment)
    files_to_cleanup,
    branch,             \* "none", "single" or "split"
    num_chunks,
    chunk_duration_ms,
    i,                  \* index of the Part loop, 0-based
    attempt,            \* upload_audiobook: loop variable
    upload_result,      \* "none", "true", "false", "raised"
    trace,              \* events of the current upload_audiobook call
    observe,            \* whether the events of upload calls are recorded
    failed_dates,       \* dates on which an upload failed or an exception was raised
    produced,           \* artifacts written to local disk for this date
    exports,            \* <<file, start_ms, end_ms>> of every export of this date
    upload_calls,       \* file of every upload_audiobook call of this date
    upload_results,     \* result of every upload_audiobook call that ended
    checked,            \* dates whose existence check has started
    cleanup_calls,      \* number of cleanup invocations so far
    upload_titles,      \* metadata title of every upload_audiobook call of this date
    chunk,              \* validate_and_process_chunk: the text unit passed in
    max_len,
    sub_chunks,         \* its return value
    text_blocks,        \* <<title, len(text)>> of every text block
    original_chapters,  \* <<title, start_time_ms>> as _create_chapter_list returns them
    part_metadata,      \* metadata built for every Part (or the single file) so far
    final_chunks,       \* synthesis loop: <<token count, engine outcome>> per chunk
    audio_chunks,       \* buffers appended so far, named by chunk number
    tts_calls,          \* chunk number of every TTS_CLIENT.tts call
    full_audio_np,      \* np.concatenate(audio_chunks), as saved to the WAV file
    existing_response,  \* main: what GET /audiobooks answered to this date's check
    full_text,          \* main: "none", "blank", "blank_when_cleaned" or "text"
    config,             \* [reference_voice_file |-> configured path, "" if none]
    voice_file_exists,  \* os.path.exists(config["reference_voice_file"])
    speaker_wav,        \* generate_and_upload_audio: the path, or "None"
    tts_kwargs,         \* the selector dict, as a set of <<key, value>>
    tts_call_kwargs,    \* selector passed with every TTS_CLIENT.tts call
    args,               \* main: parsed arguments, dates as day numbers, 0 is None
    yesterday,          \* datetime.date.today() - timedelta(days=1)
    listing_response,   \* what GET /audiobooks answered to find_last_upload_date
    last_upload_date,   \* its return value, 0 is None
    dates_to_process,   \* main: the list of dates
    exit_status,        \* -1 while the process runs, then its exit status
    fatal_conditions,   \* "upload": an upload_audiobook call returned False;
                        \* "tts_init": the engine could not be loaded
    mp3_exists,         \* upload_mp3: mp3_path.exists()
    mp3_return,         \* upload_mp3.upload_audiobook: "none", "true", "false"
    mp3_error,          \* an exception reached its "except Exception" clause
    run,                \* 0: one run of main; 1, 2: the first run and the
                        \* later run over the same dates
    stored_titles       \* titles the remote store holds from the first run

vars == <<num_dates, date_idx, pc, files_created, wav_exists, mp3_size_mb,
          total_duration_ms, files_to_cleanup, branch, num_chunks,
          chunk_duration_ms, i, attempt, upload_result, trace, produced,
          exports, upload_calls, upload_results, checked, cleanup_calls,
          observe, failed_dates, upload_titles, chunk, max_len, sub_chunks,
          text_blocks, original_chapters, part_metadata, final_chunks,
          audio_chunks, tts_calls, full_audio_np, existing_response,
          full_text, config, voice_file_exists, speaker_wav, tts_kwargs,
          tts_call_kwargs, args, yesterday, listing_response,
          last_upload_date, dates_to_process, exit_status, fatal_conditions,
          mp3_exists, mp3_return, mp3_error, run, stored_titles>>

gen_vars == <<mp3_size_mb, total_duration_ms, files_to_cleanup, branch,
              num_chunks, chunk_duration_ms, i>>
upload_vars == <<attempt, upload_result, trace>>
date_vars == <<existing_response, full_text>>
voice_vars == <<config, voice_file_exists, speaker_wav, tts_kwargs,
                tts_call_kwargs>>
select_vars == <<args, yesterday, listing_response, last_upload_date,
                 dates_to_process, exit_status, fatal_conditions>>
mp3_vars == <<mp3_exists, mp3_return, mp3_error>>
store_vars == <<run, stored_titles>>
main_vars == <<num_dates, date_idx, files_created, checked, cleanup_calls,
               observe, failed_dates, date_vars, voice_vars, select_vars,
               mp3_vars, store_vars>>
ghost_vars == <<produced, exports, upload_calls, upload_results, upload_titles>>
text_vars == <<chunk, max_len, sub_chunks, text_blocks, original_chapters,
               part_metadata, final_chunks, audio_chunks, tts_calls,
               full_audio_np>>

(***************************************************************************)
(* Pure helpers.                                                           *)
(***************************************************************************)
\* math.ceil(a / b) for positive integers.
CeilDiv(a, b) == (a + b - 1) \div b

Min(a, b) == IF a <= b THEN a ELSE b

Range(seq) == {seq[k] : k \in 1..Len(seq)}

RECURSIVE Pow2(_)
Pow2(k) == IF k = 0 THEN 1 ELSE 2 * Pow2(k - 1)

RECURSIVE SeqsUpTo(_, _)
\* All sequences over S of length at most n.
SeqsUpTo(S, n) ==
    IF n = 0 THEN {<< >>}
    ELSE LET shorter == SeqsUpTo(S, n - 1) IN
         shorter \cup {Append(q, x) : q \in {r \in shorter : Len(r) = n - 1}, x \in S}

\* os.path.exists on the paths the except branch probes.
PathExists(f) == f = TEMP_WAV_FILE /\ wav_exists

(***************************************************************************)
(* upload_audiobook(api_url, api_key, filepath, metadata).                 *)
(*                                                                         *)
(* trace holds the events of the running call, in order:                   *)
(*   <<"open", 0, present>>    open(filepath, "rb"); present = FALSE is    *)
(*                             FileNotFoundError                           *)
(*   <<"open_error", 0, FALSE>> open raised another OSError                *)
(*   <<"post", status, json>>  requests.post; status 0 is a transport      *)
(*                             error (no response), json tells whether the *)
(*                             body of the response parses as JSON         *)
(*   <<"sleep", delay, TRUE>>  time.sleep(delay)                           *)
(***************************************************************************)
RaisesForStatusFrom300(status) == 300 <= status /\ status < 600
\* response.raise_for_status(): HTTPError for any 4xx or 5xx status.
RaisesForStatus(status) == 400 <= status /\ status < 600

IsServerErrorAbove500(status) == 500 < status /\ status < 600
IsServerErrorFrom400(status) == 400 <= status /\ status < 600
\* The HTTPError handler retries a 5xx status.
IsServerError(status) == 500 <= status /\ status < 600

BackoffDelayLinear(a) == base_delay_seconds * (a + 1)
\* delay = base_delay_seconds * (2**attempt)
BackoffDelay(a) == base_delay_seconds * Pow2(a)

\* A sleep after every failed attempt, the last one included.
SleepsAfterEveryAttempt(a) == a < max_retries
\* "If this was the last attempt, don't wait, just let it fail."
SleepsAfter(a) == a < max_retries - 1

\* The trace with one more event, where events are recorded.
Record(ev) == IF observe THEN Append(trace, ev) ELSE trace

\* The call itself: the caller's frame is left as it is.
StartUpload(file) ==
    /\ attempt' = 0
    /\ upload_result' = "none"
    /\ trace' = << >>
    /\ upload_calls' = Append(upload_calls, file)
    /\ pc' = "up_open"

\* A retriable failure of this attempt: sleep unless it was the last one,
\* then continue with the next iteration of the loop.
RetryAfter(tr) ==
    /\ trace' = tr
    /\ upload_result' = upload_result
    /\ IF SleepsAfter(attempt)
         THEN pc' = "up_sleep" /\ attempt' = attempt
         ELSE pc' = "up_open" /\ attempt' = attempt + 1

ReturnFromUpload(tr, result) ==
    /\ trace' = tr
    /\ upload_result' = result
    /\ attempt' = attempt
    /\ pc' = "up_return"

\* The file opened once, before the loop, instead of on every attempt.
UploadOpenOnce ==
    /\ pc = "up_open"
    /\ attempt < max_retries
    /\ IF attempt > 0
         THEN /\ pc' = "up_post"
              /\ UNCHANGED <<attempt, upload_result, trace>>
         ELSE \/ /\ trace' = Record(<<"open", 0, TRUE>>)
                 /\ pc' = "up_post"
                 /\ UNCHANGED <<attempt, upload_result>>
              \/ ReturnFromUpload(Record(<<"open", 0, FALSE>>), "false")
              \/ ReturnFromUpload(Record(<<"open_error", 0, FALSE>>), "raised")
    /\ UNCHANGED <<main_vars, gen_vars, ghost_vars, wav_exists, text_vars>>

\* for attempt in range(max_retries): ... with open(filepath, "rb")
UploadOpen ==
    /\ pc = "up_open"
    /\ attempt < max_retries
    /\ \/ /\ trace' = Record(<<"open", 0, TRUE>>)
          /\ pc' = "up_post"
          /\ UNCHANGED <<attempt, upload_result>>
       \/ \* FileNotFoundError: return False
          ReturnFromUpload(Record(<<"open", 0, FALSE>>), "false")
       \/ \* any other OSError (PermissionError, ...): no handler catches it
          ReturnFromUpload(Record(<<"open_error", 0, FALSE>>), "raised")
    /\ UNCHANGED <<main_vars, gen_vars, ghost_vars, wav_exists, text_vars>>

\* requests.post, raise_for_status, response.json() and the handlers.
UploadPost ==
    /\ pc = "up_post"
    /\ \/ \* transport-level error: requests.exceptions.RequestException
          RetryAfter(Record(<<"post", 0, FALSE>>))
       \/ \E response \in Responses :
            LET status == response[1]
                json == response[2]
                tr == Record(<<"post", status, json>>)
            IN
            IF RaisesForStatus(status)
              THEN IF IsServerError(status)
                     THEN RetryAfter(tr)
                     ELSE ReturnFromUpload(tr, "false")
              ELSE IF json
                THEN ReturnFromUpload(tr, "true")
                ELSE \* response.json() raises: a RequestException in
                     \* requests >= 2.27, a plain ValueError before.
                     \/ RetryAfter(tr)
                     \/ ReturnFromUpload(tr, "raised")
    /\ UNCHANGED <<main_vars, gen_vars, ghost_vars, wav_exists, text_vars>>

\* time.sleep(delay); continue
UploadSleep ==
    /\ pc = "up_sleep"
    /\ trace' = Record(<<"sleep", BackoffDelay(attempt), TRUE>>)
    /\ attempt' = attempt + 1
    /\ pc' = "up_open"
    /\ UNCHANGED <<upload_result, main_vars, gen_vars, ghost_vars, wav_exists,
                   text_vars>>

\* The loop completes without a successful upload.
UploadExhausted ==
    /\ pc = "up_open"
    /\ attempt >= max_retries
    /\ ReturnFromUpload(trace, "false")
    /\ UNCHANGED <<main_vars, gen_vars, ghost_vars, wav_exists, text_vars>>

(***************************************************************************)
(* generate_and_upload_audio(text_content, text_blocks, config, date_str). *)
(***************************************************************************)
\* return <list> to main: files_created = generate_and_upload_audio(...)
ReturnFromGenerate(list) ==
    /\ files_created' = list
    /\ pc' = "cleanup"
    /\ UNCHANGED <<num_dates, date_idx, checked, cleanup_calls, observe,
                   failed_dates, date_vars, voice_vars, select_vars,
                   mp3_vars, store_vars>>

\* The same return, after a failure that is logged as an error.
ReturnFromGenerateFailed(list) ==
    /\ files_created' = list
    /\ pc' = "cleanup"
    /\ failed_dates' = failed_dates \cup {date_idx}
    /\ UNCHANGED <<num_dates, date_idx, checked, cleanup_calls, observe,
                   date_vars, voice_vars, select_vars, mp3_vars, store_vars>>

\* The same return, after upload_audiobook returned False.
ReturnFromGenerateUploadFailed(list) ==
    /\ files_created' = list
    /\ pc' = "cleanup"
    /\ failed_dates' = failed_dates \cup {date_idx}
    /\ fatal_conditions' = fatal_conditions \cup {"upload"}
    /\ UNCHANGED <<num_dates, date_idx, checked, cleanup_calls, observe,
                   date_vars, voice_vars, mp3_vars, store_vars, args, yesterday,
                   listing_response, last_upload_date, dates_to_process,
                   exit_status>>

\* The remote store after it accepted an upload under the title; its
\* content is kept only where a later run is to read it.
Stored(title) ==
    IF run = 0 THEN stored_titles ELSE stored_titles \cup {title}

\* The same return, after upload_audiobook returned True for the title.
ReturnFromGenerateUploaded(list, title) ==
    /\ files_created' = list
    /\ pc' = "cleanup"
    /\ stored_titles' = Stored(title)
    /\ UNCHANGED <<num_dates, date_idx, checked, cleanup_calls, observe,
                   failed_dates, date_vars, voice_vars, select_vars,
                   mp3_vars, run>>

\* The list the except branch returns: the candidates that exist on disk.
ExceptReturnList ==
    SelectSeq(<<TEMP_WAV_FILE, TEMP_OUTPUT_PATTERN>>, PathExists)

\* num_chunks = math.ceil(mp3_size_mb / MAX_UPLOAD_SIZE_MB)
NumChunks(size_mb) == CeilDiv(size_mb, MAX_UPLOAD_SIZE_MB)

FitsInOneFileStrict(size_mb) == size_mb < MAX_UPLOAD_SIZE_MB
\* if mp3_size_mb <= MAX_UPLOAD_SIZE_MB
FitsInOneFile(size_mb) == size_mb <= MAX_UPLOAD_SIZE_MB

\* chunk_duration_ms = math.ceil(len(full_audio_segment) / num_chunks)
ChunkDuration(duration_ms, n) == CeilDiv(duration_ms, n)

\* start_ms = i * chunk_duration_ms
StartMs(k, chunk_ms) == k * chunk_ms

\* end_ms = min((i + 1) * chunk_duration_ms, len(full_audio_segment))
EndMs(k, chunk_ms, duration_ms) == Min((k + 1) * chunk_ms, duration_ms)

\* if not text_content.strip(): return []
GenerateStart ==
    /\ pc = "generate"
    /\ IF full_text = "blank_when_cleaned"
         THEN ReturnFromGenerate(<< >>)
         ELSE /\ pc' = "synthesize"
              /\ UNCHANGED main_vars
    /\ UNCHANGED <<gen_vars, upload_vars, ghost_vars, wav_exists, text_vars>>

\* Chunking, synthesis, concatenation and save_wav(path=TEMP_WAV_FILE).
Synthesize ==
    /\ pc = "synthesize"
    /\ \/ \* an exception inside the try block
          /\ ReturnFromGenerateFailed(ExceptReturnList)
          /\ UNCHANGED <<wav_exists, produced>>
       \/ \* if not audio_chunks: return []
          /\ ReturnFromGenerate(<< >>)
          /\ UNCHANGED <<wav_exists, produced>>
       \/ /\ wav_exists' = TRUE
          /\ produced' = produced \cup {TEMP_WAV_FILE}
          /\ pc' = "encode"
          /\ UNCHANGED main_vars
    /\ UNCHANGED <<gen_vars, upload_vars, exports, upload_calls, upload_results,
                   upload_titles, text_vars>>

\* AudioSegment.from_wav, the measuring export, and the partition decision.
Encode ==
    /\ pc = "encode"
    /\ \/ /\ ReturnFromGenerateFailed(ExceptReturnList)
          /\ UNCHANGED gen_vars
       \/ \E duration_ms \in 0..MaxDurationMs, size_mb \in Mp3SizesMB :
            /\ total_duration_ms' = duration_ms
            /\ mp3_size_mb' = size_mb
            /\ files_to_cleanup' = <<TEMP_WAV_FILE>>
            /\ i' = 0
            /\ IF FitsInOneFile(size_mb)
                 THEN /\ branch' = "single"
                      /\ UNCHANGED <<num_chunks, chunk_duration_ms>>
                      /\ pc' = "export_single"
                 ELSE /\ branch' = "split"
                      /\ num_chunks' = NumChunks(size_mb)
                      /\ chunk_duration_ms' =
                           ChunkDuration(duration_ms, NumChunks(size_mb))
                      /\ pc' = "export_chunk"
            /\ UNCHANGED main_vars
    /\ UNCHANGED <<upload_vars, ghost_vars, wav_exists, text_vars>>

\* full_audio_segment.export(filepath); files_to_cleanup.append(filepath);
\* upload_audiobook(..., filepath, metadata)
ExportSingle ==
    /\ pc = "export_single"
    /\ LET filepath == SingleFile(date_idx) IN
       \/ /\ ReturnFromGenerateFailed(ExceptReturnList)
          /\ UNCHANGED <<gen_vars, upload_vars, ghost_vars>>
       \/ /\ produced' = produced \cup {filepath}
          /\ exports' = Append(exports, <<filepath, 0, total_duration_ms>>)
          /\ files_to_cleanup' = Append(files_to_cleanup, filepath)
          /\ upload_titles' = Append(upload_titles, BaseTitle(date_idx))
          /\ StartUpload(filepath)
          /\ UNCHANGED <<mp3_size_mb, total_duration_ms, branch, num_chunks,
                         chunk_duration_ms, i, upload_results, main_vars>>
    /\ UNCHANGED <<wav_exists, text_vars>>

\* One iteration of "for i in range(num_chunks)" up to the upload call.
ExportChunk ==
    /\ pc = "export_chunk"
    /\ i < num_chunks
    /\ LET start_ms == StartMs(i, chunk_duration_ms)
           end_ms == EndMs(i, chunk_duration_ms, total_duration_ms)
           chunk_filepath == ChunkFile(date_idx, i + 1, num_chunks)
           chunk_title == ChunkTitle(date_idx, i + 1, num_chunks)
       IN
       \/ /\ ReturnFromGenerateFailed(ExceptReturnList)
          /\ UNCHANGED <<gen_vars, upload_vars, ghost_vars>>
       \/ /\ produced' = produced \cup {chunk_filepath}
          /\ exports' = Append(exports, <<chunk_filepath, start_ms, end_ms>>)
          /\ files_to_cleanup' = Append(files_to_cleanup, chunk_filepath)
          /\ upload_titles' = Append(upload_titles, chunk_title)
          /\ StartUpload(chunk_filepath)
          /\ UNCHANGED <<mp3_size_mb, total_duration_ms, branch, num_chunks,
                         chunk_duration_ms, i, upload_results, main_vars>>
    /\ UNCHANGED <<wav_exists, text_vars>>

\* The Part loop has run through all of range(num_chunks).
ChunksDone ==
    /\ pc = "export_chunk"
    /\ i >= num_chunks
    /\ ReturnFromGenerate(files_to_cleanup)
    /\ UNCHANGED <<gen_vars, upload_vars, ghost_vars, wav_exists, text_vars>>

\* if not upload_audiobook(...): logger.error(...); return files_to_cleanup
SingleUploadReturned ==
    /\ pc = "up_return"
    /\ branch = "single"
    /\ upload_result \in {"true", "false"}
    /\ upload_results' = Append(upload_results, upload_result)
    /\ IF upload_result = "false"
         THEN ReturnFromGenerateUploadFailed(files_to_cleanup)
         ELSE ReturnFromGenerateUploaded(files_to_cleanup,
                                         upload_titles[Len(upload_titles)])
    /\ UNCHANGED <<gen_vars, upload_vars, produced, exports, upload_calls,
                   upload_titles, wav_exists, text_vars>>

\* The loop without its break: a failed Part is logged and the next one tried.
ChunkUploadReturnedNoBreak ==
    /\ pc = "up_return"
    /\ branch = "split"
    /\ upload_result \in {"true", "false"}
    /\ upload_results' = Append(upload_results, upload_result)
    /\ i' = i + 1
    /\ pc' = "export_chunk"
    /\ UNCHANGED <<main_vars, mp3_size_mb, total_duration_ms, files_to_cleanup,
                   branch, num_chunks, chunk_duration_ms, upload_vars, produced,
                   exports, upload_calls, upload_titles, wav_exists,
                   text_vars>>

\* if not upload_audiobook(...): logger.error(...); break
ChunkUploadReturned ==
    /\ pc = "up_return"
    /\ branch = "split"
    /\ upload_result \in {"true", "false"}
    /\ upload_results' = Append(upload_results, upload_result)
    /\ IF upload_result = "false"
         THEN /\ ReturnFromGenerateUploadFailed(files_to_cleanup)
              /\ UNCHANGED i
         ELSE /\ i' = i + 1
              /\ pc' = "export_chunk"
              /\ stored_titles' = Stored(upload_titles[Len(upload_titles)])
              /\ UNCHANGED <<num_dates, date_idx, files_created, checked,
                             cleanup_calls, observe, failed_dates, date_vars,
                             voice_vars, select_vars, mp3_vars, run>>
    /\ UNCHANGED <<mp3_size_mb, total_duration_ms, files_to_cleanup, branch,
                   num_chunks, chunk_duration_ms, upload_vars, produced,
                   exports, upload_calls, upload_titles, wav_exists,
                   text_vars>>

\* upload_audiobook raised: the except branch of generate_and_upload_audio.
UploadRaised ==
    /\ pc = "up_return"
    /\ upload_result = "raised"
    /\ upload_results' = Append(upload_results, upload_result)
    /\ ReturnFromGenerateFailed(ExceptReturnList)
    /\ UNCHANGED <<gen_vars, upload_vars, produced, exports, upload_calls,
                   upload_titles, wav_exists, text_vars>>

(***************************************************************************)
(* main: the loop over dates_to_process, and cleanup.                      *)
(***************************************************************************)
\* No answer of the listing endpoint: the check has not been made.
NoResponse == [status |-> -1, parses |-> FALSE, titles |-> {}]

\* Titles the remote store may list when date d is checked.
ListedTitles(d) ==
    {{}, {BaseTitle(d)}, {BaseTitle(d + 1), ChunkTitle(d, 1, 2)},
     {BaseTitle(d), BaseTitle(d + 1)}}

\* Answers of GET /audiobooks: status 0 stands for a RequestException raised
\* by requests.get, parses tells whether response.json() returns a list of
\* audiobook objects, titles are the titles of that list.
ListingResponses(d) ==
    IF run = 2
      THEN \* the later run: the store lists what the first run uploaded
           {[status |-> 200, parses |-> TRUE, titles |-> stored_titles]}
      ELSE [status : {200}, parses : {TRUE}, titles : ListedTitles(d)]
             \cup [status : {500}, parses : {TRUE},
                   titles : {{}, {BaseTitle(d)}}]
             \cup {[status |-> 200, parses |-> FALSE, titles |-> {}],
                   [status |-> 404, parses |-> FALSE, titles |-> {}],
                   [status |-> 0, parses |-> FALSE, titles |-> {}]}

\* The check that never reports an existing title.
check_existing_audiobook_never_found(response, title) == {"false"}

\* The check that skips the date whenever the listing cannot be read.
check_existing_audiobook_fails_closed(response, title) ==
    IF response.status # 200 \/ ~response.parses THEN {"true"}
    ELSE IF title \in response.titles THEN {"true"} ELSE {"false"}

\* check_existing_audiobook(api_url, api_key, title): the set of its possible
\* results.  A body that does not parse makes response.json() raise, which
\* is a RequestException (caught, False) or a ValueError (not caught),
\* depending on the version of requests.
check_existing_audiobook(response, title) ==
    IF response.status = 0 THEN {"false"}
    ELSE IF response.status # 200 THEN {"false"}
    ELSE IF ~response.parses THEN {"false", "raised"}
    ELSE IF title \in response.titles THEN {"true"} ELSE {"false"}

\* The loop whose skip of an existing date bypasses the cleanup call.
CheckExistingSkipsCleanup ==
    /\ pc = "check_existing"
    /\ date_idx <= num_dates
    /\ checked' = checked \cup {date_idx}
    /\ files_created' = << >>
    /\ \E response \in ListingResponses(date_idx) :
         \E result \in check_existing_audiobook(response,
                                                 BaseTitle(date_idx)) :
              \/ /\ result = "true"
                 /\ existing_response' = NoResponse
                 /\ date_idx' = date_idx + 1
                 /\ pc' = IF date_idx + 1 <= num_dates
                            THEN "check_existing" ELSE "done"
                 /\ UNCHANGED failed_dates
              \/ /\ result = "raised"
                 /\ existing_response' = response
                 /\ pc' = "cleanup"
                 /\ failed_dates' = failed_dates \cup {date_idx}
                 /\ UNCHANGED date_idx
              \/ /\ result = "false"
                 /\ existing_response' = response
                 /\ pc' = "process_emails"
                 /\ UNCHANGED <<failed_dates, date_idx>>
    /\ UNCHANGED <<num_dates, cleanup_calls, observe, full_text, voice_vars,
                   select_vars, mp3_vars, store_vars, gen_vars, upload_vars, ghost_vars,
                   wav_exists, text_vars>>

\* files_created = []; check_existing_audiobook(..., base_title)
CheckExisting ==
    /\ pc = "check_existing"
    /\ date_idx <= num_dates
    /\ checked' = checked \cup {date_idx}
    /\ files_created' = << >>
    /\ \E response \in ListingResponses(date_idx) :
         /\ existing_response' = response
         /\ \E result \in check_existing_audiobook(response,
                                                   BaseTitle(date_idx)) :
              \/ \* already exists: continue
                 /\ result = "true"
                 /\ pc' = "cleanup"
                 /\ UNCHANGED failed_dates
              \/ \* the check raised: except Exception
                 /\ result = "raised"
                 /\ pc' = "cleanup"
                 /\ failed_dates' = failed_dates \cup {date_idx}
              \/ /\ result = "false"
                 /\ pc' = "process_emails"
                 /\ UNCHANGED failed_dates
    /\ UNCHANGED <<num_dates, date_idx, cleanup_calls, observe, full_text,
                   voice_vars, select_vars, mp3_vars, store_vars, gen_vars, upload_vars,
                   ghost_vars, wav_exists, text_vars>>

\* The date loop without its own try/except: an exception of process_emails
\* reaches the outer handler, which ends the run.
ProcessEmailsAbortsRun ==
    /\ pc = "process_emails"
    /\ \/ /\ full_text' = "blank"
          /\ pc' = "cleanup"
          /\ UNCHANGED failed_dates
       \/ /\ full_text' = full_text
          /\ pc' = "done"
          /\ failed_dates' = failed_dates \cup {date_idx}
       \/ \* cleaned_full_text = remove_markdown_links(full_text) may be blank
          /\ full_text' \in {"text", "blank_when_cleaned"}
          /\ pc' = "generate"
          /\ UNCHANGED failed_dates
    /\ UNCHANGED <<num_dates, date_idx, files_created, checked, cleanup_calls,
                   observe, existing_response, voice_vars, select_vars,
                   mp3_vars, store_vars, gen_vars, upload_vars, ghost_vars, wav_exists,
                   text_vars>>

\* The loop that hands a date without content to generate_and_upload_audio.
ProcessEmailsNoContentCheck ==
    /\ pc = "process_emails"
    /\ \/ /\ full_text' = "blank"
          /\ pc' = "synthesize"
          /\ UNCHANGED failed_dates
       \/ /\ full_text' = full_text
          /\ pc' = "cleanup"
          /\ failed_dates' = failed_dates \cup {date_idx}
       \/ \* cleaned_full_text = remove_markdown_links(full_text) may be blank
          /\ full_text' \in {"text", "blank_when_cleaned"}
          /\ pc' = "generate"
          /\ UNCHANGED failed_dates
    /\ UNCHANGED <<num_dates, date_idx, files_created, checked, cleanup_calls,
                   observe, existing_response, voice_vars, select_vars,
                   mp3_vars, store_vars, gen_vars, upload_vars, ghost_vars, wav_exists,
                   text_vars>>

\* full_text, text_blocks = process_emails(gmail_service, sources, date_str)
ProcessEmails ==
    /\ pc = "process_emails"
    /\ \/ \* if not full_text.strip(): continue
          /\ full_text' = "blank"
          /\ pc' = "cleanup"
          /\ UNCHANGED failed_dates
       \/ \* process_emails raised: except Exception
          /\ full_text' = full_text
          /\ pc' = "cleanup"
          /\ failed_dates' = failed_dates \cup {date_idx}
       \/ \* cleaned_full_text = remove_markdown_links(full_text) may be blank
          /\ full_text' \in {"text", "blank_when_cleaned"}
          /\ pc' = "generate"
          /\ UNCHANGED failed_dates
    /\ UNCHANGED <<num_dates, date_idx, files_created, checked, cleanup_calls,
                   observe, existing_response, voice_vars, select_vars,
                   mp3_vars, store_vars, gen_vars, upload_vars, ghost_vars, wav_exists,
                   text_vars>>

\* finally: cleanup(files_created), then the next process_date.  The frames
\* of this date's calls are gone by then.
Cleanup ==
    /\ pc = "cleanup"
    /\ cleanup_calls' = cleanup_calls + 1
    /\ wav_exists' = IF TEMP_WAV_FILE \in Range(files_created)
                       THEN FALSE ELSE wav_exists
    /\ date_idx' = date_idx + 1
    /\ pc' = IF date_idx + 1 <= num_dates THEN "check_existing" ELSE "done"
    /\ mp3_size_mb' = 0
    /\ total_duration_ms' = 0
    /\ files_to_cleanup' = << >>
    /\ branch' = "none"
    /\ num_chunks' = 0
    /\ chunk_duration_ms' = 0
    /\ i' = 0
    /\ attempt' = 0
    /\ upload_result' = "none"
    /\ trace' = << >>
    /\ produced' = {}
    /\ exports' = << >>
    /\ upload_calls' = << >>
    /\ upload_results' = << >>
    /\ upload_titles' = << >>
    /\ existing_response' = NoResponse
    /\ full_text' = "none"
    /\ UNCHANGED <<num_dates, files_created, checked, observe, failed_dates,
                   voice_vars, select_vars, mp3_vars, store_vars, text_vars>>

\* find_last_upload_date has not been called.
NoListing == [status |-> -1, parses |-> FALSE, titles |-> << >>]

\* The existence check and the source fetch of this date have not run.
DateIdle ==
    /\ existing_response = NoResponse
    /\ full_text = "none"

\* No voice has been selected and the engine has not been called.
VoiceIdle ==
    /\ config = [reference_voice_file |-> ""]
    /\ voice_file_exists = FALSE
    /\ speaker_wav = "None"
    /\ tts_kwargs = {}
    /\ tts_call_kwargs = << >>

\* The arguments have not been looked at and the process runs.
SelectIdle ==
    /\ args = [date |-> 0, start_date |-> 0, end_date |-> 0]
    /\ yesterday = 0
    /\ listing_response = NoListing
    /\ last_upload_date = 0
    /\ dates_to_process = << >>
    /\ exit_status = -1
    /\ fatal_conditions = {}

\* upload_mp3.upload_audiobook has not been called.
Mp3Idle ==
    /\ mp3_exists = FALSE
    /\ mp3_return = "none"
    /\ mp3_error = FALSE

\* One run of main, in which the content of the remote store is not kept.
StoreIdle ==
    /\ run = 0
    /\ stored_titles = {}

\* No text unit, text block or synthesis chunk is being looked at.
TextIdle ==
    /\ chunk = << >>
    /\ max_len = 0
    /\ sub_chunks = << >>
    /\ text_blocks = << >>
    /\ original_chapters = << >>
    /\ part_metadata = << >>
    /\ final_chunks = << >>
    /\ audio_chunks = << >>
    /\ tts_calls = << >>
    /\ full_audio_np = << >>

\* main at the first pass of "for process_date in dates_to_process".
InitDateLoop ==
    /\ num_dates \in 1..MaxDates
    /\ date_idx = 1
    /\ pc = "check_existing"
    /\ files_created = << >>
    /\ wav_exists = FALSE
    /\ mp3_size_mb = 0
    /\ total_duration_ms = 0
    /\ files_to_cleanup = << >>
    /\ branch = "none"
    /\ num_chunks = 0
    /\ chunk_duration_ms = 0
    /\ i = 0
    /\ attempt = 0
    /\ upload_result = "none"
    /\ trace = << >>
    /\ produced = {}
    /\ exports = << >>
    /\ upload_calls = << >>
    /\ upload_results = << >>
    /\ checked = {}
    /\ cleanup_calls = 0
    /\ observe = FALSE
    /\ DateIdle
    /\ VoiceIdle
    /\ SelectIdle
    /\ Mp3Idle
    /\ failed_dates = {}
    /\ upload_titles = << >>
    /\ TextIdle

Next ==
    \/ CheckExisting
    \/ ProcessEmails
    \/ GenerateStart
    \/ Synthesize
    \/ Encode
    \/ ExportSingle
    \/ ExportChunk
    \/ ChunksDone
    \/ UploadOpen
    \/ UploadPost
    \/ UploadSleep
    \/ UploadExhausted
    \/ SingleUploadReturned
    \/ ChunkUploadReturned
    \/ UploadRaised
    \/ Cleanup

Init == InitDateLoop /\ StoreIdle

Spec == Init /\ [][Next]_vars

(***************************************************************************)
(* main run twice over the same date: the first run against any answers    *)
(* of the listing endpoint, the later run against a remote store that      *)
(* lists the titles the first run uploaded.                                *)
(***************************************************************************)
\* The process is started again with the same arguments.
Rerun ==
    /\ pc = "done"
    /\ run = 1
    /\ run' = 2
    /\ date_idx' = 1
    /\ pc' = "check_existing"
    /\ files_created' = << >>
    /\ checked' = {}
    /\ cleanup_calls' = 0
    /\ failed_dates' = {}
    /\ fatal_conditions' = {}
    /\ UNCHANGED <<num_dates, observe, date_vars, voice_vars, mp3_vars,
                   stored_titles, args, yesterday, listing_response,
                   last_upload_date, dates_to_process, exit_status, gen_vars,
                   upload_vars, ghost_vars, wav_exists, text_vars>>

InitRerun ==
    /\ InitDateLoop
    /\ num_dates = 1
    /\ run = 1
    /\ stored_titles = {}

NextRerun ==
    \/ Next
    \/ Rerun

SpecRerun == InitRerun /\ [][NextRerun]_vars

(***************************************************************************)
(* upload_audiobook called on its own, on any file, with its events        *)
(* recorded.                                                               *)
(***************************************************************************)
InitUpload ==
    /\ num_dates = 1
    /\ date_idx = 1
    /\ pc = "up_open"
    /\ files_created = << >>
    /\ wav_exists = FALSE
    /\ mp3_size_mb = 0
    /\ total_duration_ms = 0
    /\ files_to_cleanup = << >>
    /\ branch = "none"
    /\ num_chunks = 0
    /\ chunk_duration_ms = 0
    /\ i = 0
    /\ attempt = 0
    /\ upload_result = "none"
    /\ trace = << >>
    /\ produced = {}
    /\ exports = << >>
    /\ upload_calls = <<SingleFile(1)>>
    /\ upload_results = << >>
    /\ checked = {}
    /\ cleanup_calls = 0
    /\ observe = TRUE
    /\ DateIdle
    /\ VoiceIdle
    /\ SelectIdle
    /\ Mp3Idle
    /\ StoreIdle
    /\ failed_dates = {}
    /\ upload_titles = <<BaseTitle(1)>>
    /\ TextIdle

NextUpload ==
    \/ UploadOpen
    \/ UploadPost
    \/ UploadSleep
    \/ UploadExhausted

SpecUpload == InitUpload /\ [][NextUpload]_vars

(***************************************************************************)
(* The two other copies of the upload routine, upload_single_file of       *)
(* upload_mp3.py and upload_audiobook of test_upload.py, as functions of   *)
(* what their attempts meet.  The outcome of an attempt is <<kind,         *)
(* status>>:                                                               *)
(*   <<"missing", 0>>        open raises FileNotFoundError                 *)
(*   <<"oserror", 0>>        open raises another OSError                   *)
(*   <<"neterror", 0>>       requests.post raises a RequestException       *)
(*   <<"response", status>>  a response whose body parses as JSON          *)
(*   <<"badjson_request", status>>, <<"badjson_value", status>>            *)
(*                           a response whose body does not parse:         *)
(*                           response.json() raises a RequestException,    *)
(*                           or a plain ValueError                         *)
(* The result is [attempts, sleeps, result]: the attempts made, the delays *)
(* slept in order, and "true", "false" or "raised"; "more" when the        *)
(* routine asks for an attempt the outcomes do not hold.                   *)
(***************************************************************************)
UploadReturn(attempts, sleeps, result) ==
    [attempts |-> attempts, sleeps |-> sleeps, result |-> result]

upload_mp3_BackoffDelayFixed(a) == upload_mp3_base_delay_seconds + 0 * a
\* delay = base_delay_seconds * (2**attempt)
upload_mp3_BackoffDelay(a) == upload_mp3_base_delay_seconds * Pow2(a)

\* if attempt < max_retries - 1: ... time.sleep(delay)
upload_mp3_SleepsAfterFailure(a, sleeps) ==
    IF a < upload_mp3_max_retries - 1
      THEN Append(sleeps, upload_mp3_BackoffDelay(a))
      ELSE sleeps

RECURSIVE upload_single_file_loop(_, _, _)
\* for attempt in range(max_retries) of upload_single_file
upload_single_file_loop(outcomes, a, sleeps) ==
    IF a >= upload_mp3_max_retries
      THEN UploadReturn(a, sleeps, "false")
    ELSE IF a >= Len(outcomes)
      THEN UploadReturn(a, sleeps, "more")
    ELSE
      LET kind == outcomes[a + 1][1]
          status == outcomes[a + 1][2]
          retry == upload_single_file_loop(outcomes, a + 1,
                      upload_mp3_SleepsAfterFailure(a, sleeps))
      IN
      CASE kind = "missing" -> UploadReturn(a + 1, sleeps, "false")
        [] kind = "oserror" -> UploadReturn(a + 1, sleeps, "raised")
        [] kind = "neterror" -> retry
        [] OTHER ->
             IF 400 <= status /\ status < 600
               THEN \* raise_for_status() raised HTTPError
                    IF 500 <= status /\ status < 600
                      THEN retry
                      ELSE UploadReturn(a + 1, sleeps, "false")
               ELSE CASE kind = "response" ->
                           UploadReturn(a + 1, sleeps, "true")
                      [] kind = "badjson_request" -> retry
                      [] OTHER -> UploadReturn(a + 1, sleeps, "raised")

upload_single_file(outcomes) == upload_single_file_loop(outcomes, 0, << >>)

\* delay = base_delay_seconds * (2**attempt)
test_upload_BackoffDelay(a) == test_upload_base_delay_seconds * Pow2(a)

\* if attempt < max_retries - 1: ... time.sleep(delay)
test_upload_SleepsAfterFailure(a, sleeps) ==
    IF a < test_upload_max_retries - 1
      THEN Append(sleeps, test_upload_BackoffDelay(a))
      ELSE sleeps

RECURSIVE test_upload_upload_audiobook_loop(_, _, _)
\* for attempt in range(max_retries) of test_upload.upload_audiobook
test_upload_upload_audiobook_loop(outcomes, a, sleeps) ==
    IF a >= test_upload_max_retries
      THEN UploadReturn(a, sleeps, "false")
    ELSE IF a >= Len(outcomes)
      THEN UploadReturn(a, sleeps, "more")
    ELSE
      LET kind == outcomes[a + 1][1]
          status == outcomes[a + 1][2]
          retry == test_upload_upload_audiobook_loop(outcomes, a + 1,
                      test_upload_SleepsAfterFailure(a, sleeps))
      IN
      CASE kind = "missing" -> UploadReturn(a + 1, sleeps, "false")
        [] kind = "oserror" -> UploadReturn(a + 1, sleeps, "raised")
        [] kind = "neterror" -> retry
        [] OTHER ->
             IF 400 <= status /\ status < 600
               THEN IF 500 <= status /\ status < 600
                      THEN retry
                      ELSE UploadReturn(a + 1, sleeps, "false")
               ELSE CASE kind = "response" ->
                           UploadReturn(a + 1, sleeps, "true")
                      [] kind = "badjson_request" -> retry
                      [] OTHER -> UploadReturn(a + 1, sleeps, "raised")

test_upload_upload_audiobook(outcomes) ==
    test_upload_upload_audiobook_loop(outcomes, 0, << >>)

(***************************************************************************)
(* upload_mp3.py: upload_audiobook(api_url, api_key, mp3_path) and         *)
(* split_and_upload_chunks.  upload_single_file is a call that returns     *)
(* True or False or raises; the result of every call is kept in            *)
(* upload_results.                                                         *)
(***************************************************************************)
\* Sizes of the MP3 file on disk, in MB: around the ceiling of 35 MB and
\* around twice the ceiling, and files that need 7 and 8 parts.
Mp3FileSizesMB == {34, 35, 36, 70, 71, 211, 246}
\* len(audio) of the decoded file, in ms: the few-millisecond audios, and
\* the length of a single MP3 frame at 48 kHz and at 44.1 kHz.
Mp3AudioLengthsMs == (0..MaxDurationMs) \cup {24, 26}

UploadSingleFileResults == {"true", "false", "raised"}

\* return <value> from upload_audiobook; error tells whether the value comes
\* from the "except Exception" clause.
Mp3Return(value, error) ==
    /\ mp3_return' = value
    /\ mp3_error' = error
    /\ pc' = "mp3_returned"

\* The variables upload_mp3.py never touches.
mp3_idle_vars ==
    <<num_dates, date_idx, files_created, checked, cleanup_calls, observe,
      failed_dates, date_vars, voice_vars, select_vars, store_vars,
      upload_vars, wav_exists, files_to_cleanup, upload_titles, text_vars,
      mp3_exists,
      mp3_size_mb, total_duration_ms>>

\* if not mp3_path.exists(): return False; then the size on disk, the
\* decoding of the file and the decision between one upload and a split.
Mp3Start ==
    /\ pc = "mp3_start"
    /\ IF ~mp3_exists
         THEN /\ Mp3Return("false", FALSE)
              /\ UNCHANGED <<branch, num_chunks, chunk_duration_ms, i>>
         ELSE \/ \* stat() or AudioSegment.from_mp3 raised
                 /\ Mp3Return("false", TRUE)
                 /\ UNCHANGED <<branch, num_chunks, chunk_duration_ms, i>>
              \/ \* if file_size_mb <= MAX_UPLOAD_SIZE_MB
                 /\ mp3_size_mb <= upload_mp3_MAX_UPLOAD_SIZE_MB
                 /\ branch' = "single"
                 /\ pc' = "mp3_single"
                 /\ UNCHANGED <<num_chunks, chunk_duration_ms, i, mp3_return,
                                mp3_error>>
              \/ \* else: split_and_upload_chunks(...)
                 /\ mp3_size_mb > upload_mp3_MAX_UPLOAD_SIZE_MB
                 /\ branch' = "split"
                 /\ num_chunks' =
                      CeilDiv(mp3_size_mb, upload_mp3_MAX_UPLOAD_SIZE_MB)
                 /\ chunk_duration_ms' =
                      CeilDiv(total_duration_ms,
                              CeilDiv(mp3_size_mb,
                                      upload_mp3_MAX_UPLOAD_SIZE_MB))
                 /\ i' = 0
                 /\ pc' = "mp3_chunk"
                 /\ UNCHANGED <<mp3_return, mp3_error>>
    /\ UNCHANGED <<mp3_idle_vars, produced, exports, upload_calls,
                   upload_results>>

\* success = upload_single_file(..., str(mp3_path), metadata); return False
\* if not success, else return True
Mp3UploadSingle ==
    /\ pc = "mp3_single"
    /\ \/ \* building the metadata raised
          /\ Mp3Return("false", TRUE)
          /\ UNCHANGED <<upload_calls, upload_results>>
       \/ \E success \in UploadSingleFileResults :
            /\ upload_calls' = Append(upload_calls, SingleFile(date_idx))
            /\ upload_results' = Append(upload_results, success)
            /\ Mp3Return(IF success = "true" THEN "true" ELSE "false",
                         success = "raised")
    /\ UNCHANGED <<mp3_idle_vars, produced, exports, branch, num_chunks,
                   chunk_duration_ms, i>>

\* The Part loop that goes on to the next Part after a failed upload.
Mp3UploadChunkNoStop ==
    /\ pc = "mp3_chunk"
    /\ i < num_chunks
    /\ LET chunk_filename == ChunkFile(date_idx, i + 1, num_chunks) IN
       \E success \in UploadSingleFileResults :
          /\ produced' = produced \cup {chunk_filename}
          /\ exports' =
               Append(exports,
                      <<chunk_filename, StartMs(i, chunk_duration_ms),
                        EndMs(i, chunk_duration_ms, total_duration_ms)>>)
          /\ upload_calls' = Append(upload_calls, chunk_filename)
          /\ upload_results' = Append(upload_results, success)
          /\ i' = i + 1
          /\ UNCHANGED <<mp3_return, mp3_error, pc>>
    /\ UNCHANGED <<mp3_idle_vars, branch, num_chunks, chunk_duration_ms>>

\* One iteration of "for i in range(num_chunks)" of split_and_upload_chunks:
\* the export of the chunk, its upload, and "if not success: return False".
Mp3UploadChunk ==
    /\ pc = "mp3_chunk"
    /\ i < num_chunks
    /\ LET chunk_filename == ChunkFile(date_idx, i + 1, num_chunks) IN
       \/ \* the slice, the export or the metadata raised
          /\ Mp3Return("false", TRUE)
          /\ UNCHANGED <<produced, exports, upload_calls, upload_results, i>>
       \/ \E success \in UploadSingleFileResults :
            /\ produced' = produced \cup {chunk_filename}
            /\ exports' =
                 Append(exports,
                        <<chunk_filename, StartMs(i, chunk_duration_ms),
                          EndMs(i, chunk_duration_ms, total_duration_ms)>>)
            /\ upload_calls' = Append(upload_calls, chunk_filename)
            /\ upload_results' = Append(upload_results, success)
            /\ IF success = "true"
                 THEN /\ i' = i + 1
                      /\ UNCHANGED <<mp3_return, mp3_error, pc>>
                 ELSE /\ Mp3Return("false", success = "raised")
                      /\ UNCHANGED i
    /\ UNCHANGED <<mp3_idle_vars, branch, num_chunks, chunk_duration_ms>>

\* All parts uploaded successfully: return True
Mp3ChunksDone ==
    /\ pc = "mp3_chunk"
    /\ i >= num_chunks
    /\ Mp3Return("true", FALSE)
    /\ UNCHANGED <<mp3_idle_vars, produced, exports, upload_calls,
                   upload_results, branch, num_chunks, chunk_duration_ms, i>>

InitMp3 ==
    /\ num_dates = 1
    /\ date_idx = 1
    /\ pc = "mp3_start"
    /\ files_created = << >>
    /\ wav_exists = FALSE
    /\ mp3_size_mb \in Mp3FileSizesMB
    /\ total_duration_ms \in Mp3AudioLengthsMs
    /\ files_to_cleanup = << >>
    /\ branch = "none"
    /\ num_chunks = 0
    /\ chunk_duration_ms = 0
    /\ i = 0
    /\ attempt = 0
    /\ upload_result = "none"
    /\ trace = << >>
    /\ produced = {}
    /\ exports = << >>
    /\ upload_calls = << >>
    /\ upload_results = << >>
    /\ checked = {}
    /\ cleanup_calls = 0
    /\ observe = FALSE
    /\ DateIdle
    /\ VoiceIdle
    /\ SelectIdle
    /\ mp3_exists \in BOOLEAN
    /\ StoreIdle
    /\ mp3_return = "none"
    /\ mp3_error = FALSE
    /\ failed_dates = {}
    /\ upload_titles = << >>
    /\ TextIdle

NextMp3 ==
    \/ Mp3Start
    \/ Mp3UploadSingle
    \/ Mp3UploadChunk
    \/ Mp3ChunksDone

SpecMp3 == InitMp3 /\ [][NextMp3]_vars

(***************************************************************************)
(* main from the loading of the engine to the end of the process: the      *)
(* setup steps, the loop over the dates, and the exit status.              *)
(***************************************************************************)
\* sys.exit(status), or main returning (status 0).
Exit(status) ==
    /\ exit_status' = status
    /\ pc' = "exited"

\* initialize_tts_model(): TTS(TTS_MODEL).to(device), sys.exit(1) if it raises
InitializeTtsModel ==
    /\ pc = "initialize_tts"
    /\ \/ /\ pc' = "fetch_sources"
          /\ UNCHANGED <<exit_status, fatal_conditions>>
       \/ /\ fatal_conditions' = fatal_conditions \cup {"tts_init"}
          /\ Exit(1)
    /\ UNCHANGED <<num_dates, date_idx, files_created, checked, cleanup_calls,
                   observe, failed_dates, date_vars, voice_vars, mp3_vars, store_vars,
                   args, yesterday, listing_response, last_upload_date,
                   dates_to_process, gen_vars, upload_vars, ghost_vars,
                   wav_exists, text_vars>>

\* sources = fetch_sources(...); if not sources: return; authenticate_gmail
\* and build("gmail", ...)
FetchSources ==
    /\ pc = "fetch_sources"
    /\ \/ \* RequestException in fetch_sources, a missing credentials file,
          \* or an exception that reaches the outer handler: sys.exit(1)
          Exit(1)
       \/ \* no sources: return
          Exit(0)
       \/ /\ pc' = "check_existing"
          /\ UNCHANGED exit_status
    /\ UNCHANGED <<num_dates, date_idx, files_created, checked, cleanup_calls,
                   observe, failed_dates, date_vars, voice_vars, mp3_vars, store_vars,
                   args, yesterday, listing_response, last_upload_date,
                   dates_to_process, fatal_conditions, gen_vars, upload_vars,
                   ghost_vars, wav_exists, text_vars>>

\* The for loop is over: the finally clause logs and main returns.
MainReturn ==
    /\ pc = "done"
    /\ Exit(0)
    /\ UNCHANGED <<num_dates, date_idx, files_created, checked, cleanup_calls,
                   observe, failed_dates, date_vars, voice_vars, mp3_vars, store_vars,
                   args, yesterday, listing_response, last_upload_date,
                   dates_to_process, fatal_conditions, gen_vars, upload_vars,
                   ghost_vars, wav_exists, text_vars>>

InitMain ==
    /\ num_dates \in 1..MaxDates
    /\ date_idx = 1
    /\ pc = "initialize_tts"
    /\ files_created = << >>
    /\ wav_exists = FALSE
    /\ mp3_size_mb = 0
    /\ total_duration_ms = 0
    /\ files_to_cleanup = << >>
    /\ branch = "none"
    /\ num_chunks = 0
    /\ chunk_duration_ms = 0
    /\ i = 0
    /\ attempt = 0
    /\ upload_result = "none"
    /\ trace = << >>
    /\ produced = {}
    /\ exports = << >>
    /\ upload_calls = << >>
    /\ upload_results = << >>
    /\ checked = {}
    /\ cleanup_calls = 0
    /\ observe = FALSE
    /\ DateIdle
    /\ VoiceIdle
    /\ SelectIdle
    /\ Mp3Idle
    /\ StoreIdle
    /\ failed_dates = {}
    /\ upload_titles = << >>
    /\ TextIdle

NextMain ==
    \/ InitializeTtsModel
    \/ FetchSources
    \/ Next
    \/ MainReturn

SpecMain == InitMain /\ [][NextMain]_vars

(***************************************************************************)
(* main up to the loading of the engine: the dates to process.  A date is  *)
(* a day number from 1 to MaxDay; 0 stands for None, and in a title for a  *)
(* text of the form dddd-dd-dd that is not a date.                         *)
(***************************************************************************)
Days == 1..MaxDay

\* The titles an audiobook of the listing may have.
ListableTitles ==
    {BaseTitle(d) : d \in 0..MaxDay}
      \cup {ChunkTitle(2, 1, 2), <<"Manual Upload:", 3>>}

\* Answers of GET /audiobooks to find_last_upload_date; titles is the list
\* of the titles of response.json(), in its order.
LastUploadResponses ==
    [status : {200}, parses : {TRUE},
     titles : SeqsUpTo(ListableTitles, MaxListed)]
      \cup {[status |-> 200, parses |-> FALSE, titles |-> << >>],
            [status |-> 500, parses |-> TRUE, titles |-> <<BaseTitle(1)>>],
            [status |-> 401, parses |-> FALSE, titles |-> << >>],
            [status |-> 0, parses |-> FALSE, titles |-> << >>]}

\* date_pattern.search(title): the title holds "Daily Digest for " followed
\* by text of the form dddd-dd-dd.  Titles are matched at their beginning.
MatchesDatePattern(title) == title[1] = "Daily Digest for"

\* match.group(1), as a day number
MatchedDate(title) == title[2]

\* datetime.strptime(date_str, "%Y-%m-%d") raises ValueError
StrptimeRaises(d) == d \notin Days

RECURSIVE FirstDateLoop(_, _)
\* The loop that keeps the first date it finds.
FirstDateLoop(audiobooks, last_date) ==
    IF audiobooks = << >> THEN last_date
    ELSE LET title == Head(audiobooks) IN
         FirstDateLoop(Tail(audiobooks),
            IF /\ MatchesDatePattern(title)
               /\ ~StrptimeRaises(MatchedDate(title))
               /\ last_date = 0
              THEN MatchedDate(title) ELSE last_date)

RECURSIVE LastDateLoop(_, _)
\* for audiobook in audiobooks: ... if last_date is None or
\* audiobook_date > last_date: last_date = audiobook_date
LastDateLoop(audiobooks, last_date) ==
    IF audiobooks = << >> THEN last_date
    ELSE LET title == Head(audiobooks) IN
         LastDateLoop(Tail(audiobooks),
            IF /\ MatchesDatePattern(title)
               /\ ~StrptimeRaises(MatchedDate(title))
               /\ (last_date = 0 \/ MatchedDate(title) > last_date)
              THEN MatchedDate(title) ELSE last_date)

\* find_last_upload_date(api_url, api_key): the set of its possible results,
\* a day number, 0 for None, or -1 when the exception of response.json() is
\* not a RequestException and leaves the function.
find_last_upload_date(response) ==
    IF response.status = 0 THEN {0}
    ELSE IF response.status # 200 THEN {0}
    ELSE IF ~response.parses THEN {0, -1}
    ELSE IF response.titles = << >> THEN {0}
    ELSE {LastDateLoop(response.titles, 0)}

\* current_date = start_date; while current_date <= end_date: append
DateRange(start_date, end_date) ==
    [k \in 1..(end_date - start_date + 1) |-> start_date + k - 1]

\* The variables the selection of the dates leaves alone.
select_idle_vars ==
    <<date_idx, files_created, checked, cleanup_calls, observe, failed_dates,
      date_vars, voice_vars, mp3_vars, store_vars, fatal_conditions, gen_vars,
      upload_vars, ghost_vars, wav_exists, text_vars, args, yesterday>>

\* The first try block of main: the dates named by the arguments.
ParseArgs ==
    /\ pc = "parse_args"
    /\ IF args.date # 0
         THEN /\ dates_to_process' = <<args.date>>
              /\ pc' = "load_config"
              /\ UNCHANGED exit_status
         ELSE LET end_date == IF args.end_date # 0 THEN args.end_date
                              ELSE yesterday
                  start_date == args.start_date
              IN IF start_date # 0 /\ start_date > end_date
                   THEN /\ Exit(1)
                        /\ UNCHANGED dates_to_process
                   ELSE /\ dates_to_process' =
                             IF start_date # 0
                               THEN DateRange(start_date, end_date)
                               ELSE <<end_date>>
                        /\ pc' = "load_config"
                        /\ UNCHANGED exit_status
    /\ UNCHANGED <<select_idle_vars, num_dates, listing_response,
                   last_upload_date>>

\* config = load_config(); if not verify_authentication(...): sys.exit(1)
LoadConfig ==
    /\ pc = "load_config"
    /\ \/ /\ Exit(1)
          /\ UNCHANGED num_dates
       \/ /\ args.start_date = 0 /\ args.date = 0
          /\ pc' = "find_last_upload"
          /\ UNCHANGED <<exit_status, num_dates>>
       \/ /\ ~(args.start_date = 0 /\ args.date = 0)
          /\ num_dates' = Len(dates_to_process)
          /\ pc' = "initialize_tts"
          /\ UNCHANGED exit_status
    /\ UNCHANGED <<select_idle_vars, listing_response, last_upload_date,
                   dates_to_process>>

\* The adjustment that starts again on the day of the last upload.
AdjustDatesFromLastDay ==
    /\ pc = "find_last_upload"
    /\ \E response \in LastUploadResponses :
         /\ listing_response' = response
         /\ \E result \in find_last_upload_date(response) :
              IF result = -1
                THEN /\ Exit(1)
                     /\ UNCHANGED <<last_upload_date, dates_to_process,
                                    num_dates>>
                ELSE /\ last_upload_date' = result
                     /\ IF result # 0
                          THEN LET start_date == result
                                   end_date == dates_to_process[1]
                               IN IF start_date > end_date
                                    THEN /\ Exit(0)
                                         /\ UNCHANGED <<dates_to_process,
                                                        num_dates>>
                                    ELSE /\ dates_to_process' =
                                              DateRange(start_date, end_date)
                                         /\ num_dates' =
                                              end_date - start_date + 1
                                         /\ pc' = "initialize_tts"
                                         /\ UNCHANGED exit_status
                          ELSE /\ num_dates' = Len(dates_to_process)
                               /\ pc' = "initialize_tts"
                               /\ UNCHANGED <<dates_to_process, exit_status>>
    /\ UNCHANGED select_idle_vars

\* if not args.start_date and not args.date: last_upload_date =
\* find_last_upload_date(...) and the new date range
AdjustDates ==
    /\ pc = "find_last_upload"
    /\ \E response \in LastUploadResponses :
         /\ listing_response' = response
         /\ \E result \in find_last_upload_date(response) :
              IF result = -1
                THEN \* the outer "except Exception": sys.exit(1)
                     /\ Exit(1)
                     /\ UNCHANGED <<last_upload_date, dates_to_process,
                                    num_dates>>
                ELSE /\ last_upload_date' = result
                     /\ IF result # 0
                          THEN LET start_date == result + 1
                                   end_date == dates_to_process[1]
                               IN IF start_date > end_date
                                    THEN \* return
                                         /\ Exit(0)
                                         /\ UNCHANGED <<dates_to_process,
                                                        num_dates>>
                                    ELSE /\ dates_to_process' =
                                              DateRange(start_date, end_date)
                                         /\ num_dates' =
                                              end_date - start_date + 1
                                         /\ pc' = "initialize_tts"
                                         /\ UNCHANGED exit_status
                          ELSE /\ num_dates' = Len(dates_to_process)
                               /\ pc' = "initialize_tts"
                               /\ UNCHANGED <<dates_to_process, exit_status>>
    /\ UNCHANGED select_idle_vars

InitDates ==
    /\ num_dates = 0
    /\ date_idx = 1
    /\ pc = "parse_args"
    /\ files_created = << >>
    /\ wav_exists = FALSE
    /\ mp3_size_mb = 0
    /\ total_duration_ms = 0
    /\ files_to_cleanup = << >>
    /\ branch = "none"
    /\ num_chunks = 0
    /\ chunk_duration_ms = 0
    /\ i = 0
    /\ attempt = 0
    /\ upload_result = "none"
    /\ trace = << >>
    /\ produced = {}
    /\ exports = << >>
    /\ upload_calls = << >>
    /\ upload_results = << >>
    /\ checked = {}
    /\ cleanup_calls = 0
    /\ observe = FALSE
    /\ DateIdle
    /\ VoiceIdle
    /\ Mp3Idle
    /\ StoreIdle
    /\ args \in [date : 0..MaxDay, start_date : 0..MaxDay,
                  end_date : 0..MaxDay]
    /\ ~(args.date # 0 /\ args.start_date # 0)
    /\ yesterday \in Days
    /\ listing_response = NoListing
    /\ last_upload_date = 0
    /\ dates_to_process = << >>
    /\ exit_status = -1
    /\ fatal_conditions = {}
    /\ failed_dates = {}
    /\ upload_titles = << >>
    /\ TextIdle

NextDates ==
    \/ ParseArgs
    \/ LoadConfig
    \/ AdjustDates

SpecDates == InitDates /\ [][NextDates]_vars

(***************************************************************************)
(* Chapter metadata: _create_chapter_list, _create_metadata and            *)
(* _create_metadata_for_chunk, applied as generate_and_upload_audio        *)
(* applies them: once to the whole audio when it fits in one file, once    *)
(* per Part otherwise.                                                     *)
(*                                                                         *)
(* A text block is [title, text_len] with text_len = len(block["text"]).   *)
(* A start_time_ms is the exact quotient <<numerator, denominator>> of     *)
(* (cumulative_chars / total_chars) * total_duration_ms.                   *)
(***************************************************************************)
Titles == {"A", "B"}
BlockLens == {0, 1, 2}
\* len(full_audio_segment): the few-millisecond audios, and audios of
\* seconds around the boundaries of whole seconds and of equal Parts.
AudioLengthsMs == (0..MaxDurationMs) \cup {1999, 2000, 4000, 61500, 100000}
\* Encoded sizes that give one file, two Parts and three Parts.
MetadataSizesMB == {15, 16, 31}

Blocks == [title : Titles, text_len : BlockLens]

\* The blocks of the worked scenario: character lengths 100, 50, 50.
ScenarioBlocks ==
    <<[title |-> "A", text_len |-> 100], [title |-> "B", text_len |-> 50],
      [title |-> "C", text_len |-> 50]>>

RECURSIVE SumTextLen(_)
\* total_chars = sum(len(block["text"]) for block in text_blocks)
SumTextLen(blocks) ==
    IF blocks = << >> THEN 0 ELSE Head(blocks).text_len + SumTextLen(Tail(blocks))

StartTimeRemaining(cumulative_chars, total_chars, duration_ms) ==
    IF total_chars > 0
      THEN <<(total_chars - cumulative_chars) * duration_ms, total_chars>>
      ELSE <<0, 1>>
StartTimeWholeMs(cumulative_chars, total_chars, duration_ms) ==
    IF total_chars > 0
      THEN <<(cumulative_chars * duration_ms) \div total_chars, 1>>
      ELSE <<0, 1>>
\* (cumulative_chars / total_chars) * total_duration_ms if total_chars > 0 else 0
StartTime(cumulative_chars, total_chars, duration_ms) ==
    IF total_chars > 0
      THEN <<cumulative_chars * duration_ms, total_chars>>
      ELSE <<0, 1>>

RECURSIVE ChapterLoop(_, _, _, _, _)
\* for block in text_blocks: chapters.append(...); cumulative_chars += len(...)
ChapterLoop(blocks, cumulative_chars, total_chars, duration_ms, chapters) ==
    IF blocks = << >> THEN chapters
    ELSE LET block == Head(blocks) IN
         ChapterLoop(Tail(blocks), cumulative_chars + block.text_len,
                     total_chars, duration_ms,
                     Append(chapters,
                            [title |-> block.title,
                             start_time_ms |-> StartTime(cumulative_chars,
                                                  total_chars, duration_ms)]))

create_chapter_list(duration_ms, blocks) ==
    ChapterLoop(blocks, 0, SumTextLen(blocks), duration_ms, << >>)

\* x / 1000 rounded to the nearest whole number.
IntSecondsRounded(x) == (x[1] + 500 * x[2]) \div (1000 * x[2])
\* int(x / 1000) of a non-negative quotient x = <<numerator, denominator>>.
IntSeconds(x) == x[1] \div (1000 * x[2])

RECURSIVE DictLoop(_, _)
\* {chapter["title"]: chapter["start_time"] for chapter in chunk_chapters}:
\* the keys in the order of their first insertion, a later value for a key
\* replacing the earlier one.  The mapping is a sequence of <<key, value>>.
DictLoop(list, dict) ==
    IF list = << >> THEN dict
    ELSE LET c == Head(list)
             hit == {p \in 1..Len(dict) : dict[p][1] = c.title}
         IN DictLoop(Tail(list),
                     IF hit = {}
                       THEN Append(dict, <<c.title, c.start_time>>)
                       ELSE [p \in 1..Len(dict) |->
                               IF p \in hit THEN <<c.title, c.start_time>>
                               ELSE dict[p]])

\* The mapping in which the first chapter of a title keeps its entry.
ToDictFirstWins(list) ==
    LET dict == DictLoop(list, << >>)
        first(title) ==
          CHOOSE k \in 1..Len(list) :
             /\ list[k].title = title
             /\ \A m \in 1..(k - 1) : list[m].title # title
    IN [p \in 1..Len(dict) |->
          <<dict[p][1], list[first(dict[p][1])].start_time>>]

ToDict(list) == DictLoop(list, << >>)

\* _create_metadata(title, audio_segment, text_blocks), with
\* segment_ms = len(audio_segment).
create_metadata(title, segment_ms, blocks) ==
    LET chapters == create_chapter_list(segment_ms, blocks) IN
    [title |-> title,
     duration_seconds |-> segment_ms \div 1000,
     chapters_json |->
        ToDict([k \in 1..Len(chapters) |->
                  [title |-> chapters[k].title,
                   start_time |-> IntSeconds(chapters[k].start_time_ms)]])]

InChunkRangeAfterStart(t, chunk_start_ms, chunk_end_ms) ==
    chunk_start_ms * t[2] < t[1] /\ t[1] <= chunk_end_ms * t[2]
InChunkRangeClosed(t, chunk_start_ms, chunk_end_ms) ==
    chunk_start_ms * t[2] <= t[1] /\ t[1] <= chunk_end_ms * t[2]
\* chunk_start_ms <= chapter["start_time_ms"] < chunk_end_ms
InChunkRange(t, chunk_start_ms, chunk_end_ms) ==
    chunk_start_ms * t[2] <= t[1] /\ t[1] < chunk_end_ms * t[2]

\* int((chapter["start_time_ms"] - chunk_start_ms) / 1000)
RelativeStartTimeS(t, chunk_start_ms) ==
    IntSeconds(<<t[1] - chunk_start_ms * t[2], t[2]>>)

RECURSIVE RetainLoop(_, _, _, _)
\* for chapter in original_chapters: if in range: chunk_chapters.append(...)
RetainLoop(chapters, chunk_start_ms, chunk_end_ms, chunk_chapters) ==
    IF chapters = << >> THEN chunk_chapters
    ELSE LET chapter == Head(chapters) IN
         RetainLoop(Tail(chapters), chunk_start_ms, chunk_end_ms,
                    IF InChunkRange(chapter.start_time_ms, chunk_start_ms,
                                    chunk_end_ms)
                      THEN Append(chunk_chapters,
                                  [title |-> chapter.title,
                                   start_time |->
                                      RelativeStartTimeS(chapter.start_time_ms,
                                                         chunk_start_ms)])
                      ELSE chunk_chapters)

\* The "ensure a chapter at time 0" step on the list of retained chapters.
EnsureChapterAtZero(chunk_chapters) ==
    IF /\ chunk_chapters # << >>
       /\ chunk_chapters[1].start_time # 0
       /\ ~\E k \in 1..Len(chunk_chapters) : chunk_chapters[k].start_time = 0
      THEN <<[title |-> chunk_chapters[1].title, start_time |-> 0]>>
             \o chunk_chapters
      ELSE chunk_chapters

\* chunk_chapters of _create_metadata_for_chunk when its for loop is over.
RetainedChapters(segment_ms, chapters, chunk_start_ms) ==
    RetainLoop(chapters, chunk_start_ms, chunk_start_ms + segment_ms, << >>)

\* _create_metadata_for_chunk(title, audio_chunk_segment, original_chapters,
\* chunk_start_ms), with segment_ms = len(audio_chunk_segment).
create_metadata_for_chunk(title, segment_ms, chapters, chunk_start_ms) ==
    LET retained == RetainedChapters(segment_ms, chapters, chunk_start_ms)
        chunk_chapters == EnsureChapterAtZero(retained)
    IN [title |-> title,
        duration_seconds |-> segment_ms \div 1000,
        chapters_json |-> ToDict(chunk_chapters)]

\* len(full_audio_segment[start_ms:end_ms]): both ends are clamped to the
\* length of the audio, and a slice that ends before it starts is empty.
SliceLen(start_ms, end_ms, duration_ms) ==
    LET lo == Min(start_ms, duration_ms)
        hi == Min(end_ms, duration_ms)
    IN IF hi > lo THEN hi - lo ELSE 0

\* part_metadata holds, for every Part built so far, its time range
\* [start_ms, end_ms), the length of its audio, the chapters its re-slicing
\* retained, and the metadata passed to upload_audiobook.

\* The single-file branch: metadata = _create_metadata(base_title, ...)
MetadataSingle ==
    /\ pc = "md_start"
    /\ FitsInOneFile(mp3_size_mb)
    /\ branch' = "single"
    /\ part_metadata' =
         <<[start_ms |-> 0, end_ms |-> total_duration_ms,
            segment_ms |-> total_duration_ms,
            retained |-> << >>,
            metadata |-> create_metadata(BaseTitle(date_idx), total_duration_ms,
                                         text_blocks)]>>
    /\ pc' = "md_done"
    /\ UNCHANGED <<main_vars, upload_vars, ghost_vars, wav_exists, mp3_size_mb,
                   total_duration_ms, files_to_cleanup, num_chunks,
                   chunk_duration_ms, i, chunk, max_len, sub_chunks, text_blocks,
                   original_chapters, final_chunks, audio_chunks, tts_calls,
                   full_audio_np>>

\* The split branch up to the Part loop: num_chunks, chunk_duration_ms,
\* original_chapters = _create_chapter_list(len(full_audio_segment), text_blocks)
MetadataSplitPlan ==
    /\ pc = "md_start"
    /\ ~FitsInOneFile(mp3_size_mb)
    /\ branch' = "split"
    /\ num_chunks' = NumChunks(mp3_size_mb)
    /\ chunk_duration_ms' = ChunkDuration(total_duration_ms, NumChunks(mp3_size_mb))
    /\ original_chapters' = create_chapter_list(total_duration_ms, text_blocks)
    /\ i' = 0
    /\ pc' = "md_chunk"
    /\ UNCHANGED <<main_vars, upload_vars, ghost_vars, wav_exists, mp3_size_mb,
                   total_duration_ms, files_to_cleanup, chunk, max_len,
                   sub_chunks, text_blocks, part_metadata, final_chunks,
                   audio_chunks, tts_calls,
                   full_audio_np>>

\* One iteration of the Part loop, with an upload that succeeds.
MetadataForChunk ==
    /\ pc = "md_chunk"
    /\ i < num_chunks
    /\ LET start_ms == StartMs(i, chunk_duration_ms)
           end_ms == EndMs(i, chunk_duration_ms, total_duration_ms)
           segment_ms == SliceLen(start_ms, end_ms, total_duration_ms)
           chunk_title == ChunkTitle(date_idx, i + 1, num_chunks)
       IN part_metadata' =
            Append(part_metadata,
                   [start_ms |-> start_ms, end_ms |-> end_ms,
                    segment_ms |-> segment_ms,
                    retained |-> RetainedChapters(segment_ms, original_chapters,
                                                  start_ms),
                    metadata |-> create_metadata_for_chunk(chunk_title,
                                    segment_ms, original_chapters, start_ms)])
    /\ i' = i + 1
    /\ UNCHANGED <<main_vars, upload_vars, ghost_vars, wav_exists, mp3_size_mb,
                   total_duration_ms, files_to_cleanup, branch, num_chunks,
                   chunk_duration_ms, pc, chunk, max_len, sub_chunks,
                   text_blocks, original_chapters, final_chunks, audio_chunks,
                   tts_calls,
                   full_audio_np>>

\* The Part loop has run through all of range(num_chunks).
MetadataChunksDone ==
    /\ pc = "md_chunk"
    /\ i >= num_chunks
    /\ pc' = "md_done"
    /\ UNCHANGED <<main_vars, upload_vars, ghost_vars, wav_exists, gen_vars,
                   text_vars>>

InitMetadata ==
    /\ num_dates = 1
    /\ date_idx = 1
    /\ pc = "md_start"
    /\ files_created = << >>
    /\ wav_exists = TRUE
    /\ mp3_size_mb \in MetadataSizesMB
    /\ total_duration_ms \in AudioLengthsMs
    /\ files_to_cleanup = <<TEMP_WAV_FILE>>
    /\ branch = "none"
    /\ num_chunks = 0
    /\ chunk_duration_ms = 0
    /\ i = 0
    /\ attempt = 0
    /\ upload_result = "none"
    /\ trace = << >>
    /\ produced = {TEMP_WAV_FILE}
    /\ exports = << >>
    /\ upload_calls = << >>
    /\ upload_results = << >>
    /\ checked = {1}
    /\ cleanup_calls = 0
    /\ observe = FALSE
    /\ DateIdle
    /\ VoiceIdle
    /\ SelectIdle
    /\ Mp3Idle
    /\ StoreIdle
    /\ failed_dates = {}
    /\ upload_titles = << >>
    /\ chunk = << >>
    /\ max_len = 0
    /\ sub_chunks = << >>
    /\ text_blocks \in SeqsUpTo(Blocks, MaxBlocks) \cup {ScenarioBlocks}
    /\ original_chapters = << >>
    /\ part_metadata = << >>
    /\ final_chunks = << >>
    /\ audio_chunks = << >>
    /\ tts_calls = << >>
    /\ full_audio_np = << >>

NextMetadata ==
    \/ MetadataSingle
    \/ MetadataSplitPlan
    \/ MetadataForChunk
    \/ MetadataChunksDone

SpecMetadata == InitMetadata /\ [][NextMetadata]_vars

(***************************************************************************)
(* validate_and_process_chunk(chunk, max_len).                             *)
(*                                                                         *)
(* A text is a sequence of symbols: the letters "a" and "b", the space     *)
(* " ", the tab "TAB" (whitespace that is not a space) and "URL", which    *)
(* stands for the shortest text the pattern https?://\S+ matches (a        *)
(* scheme, "://" and one more character).                                  *)
(***************************************************************************)
Symbols == {"a", "b", " ", "TAB", "URL"}
Whitespace == {" ", "TAB"}

RECURSIVE RemoveUrlsFrom(_, _, _)
\* The pattern matches from a "URL" to the next whitespace.
RemoveUrlsFrom(s, in_url, out) ==
    IF s = << >> THEN out
    ELSE LET c == Head(s) IN
         IF c = "URL" THEN RemoveUrlsFrom(Tail(s), TRUE, out)
         ELSE IF c \in Whitespace THEN RemoveUrlsFrom(Tail(s), FALSE, Append(out, c))
         ELSE IF in_url THEN RemoveUrlsFrom(Tail(s), TRUE, out)
         ELSE RemoveUrlsFrom(Tail(s), FALSE, Append(out, c))

\* re.sub(r"https?://\S+", "", chunk)
RemoveUrls(s) == RemoveUrlsFrom(s, FALSE, << >>)

RECURSIVE LStrip(_)
LStrip(s) ==
    IF s # << >> /\ Head(s) \in Whitespace THEN LStrip(Tail(s)) ELSE s

RECURSIVE RStrip(_)
RStrip(s) ==
    IF s # << >> /\ s[Len(s)] \in Whitespace
      THEN RStrip(SubSeq(s, 1, Len(s) - 1)) ELSE s

\* str.strip()
Strip(s) == LStrip(RStrip(s))

RFindSpaceAnywhere(s, end) ==
    LET hits == {p \in 1..Len(s) : s[p] = " "} IN
    IF hits = {} THEN -1
    ELSE (CHOOSE p \in hits : \A q \in hits : q <= p) - 1
\* s.rfind(" ", 0, end): the highest 0-based index below end that holds a
\* space, -1 if there is none.
RFindSpace(s, end) ==
    LET hits == {p \in 1..Min(end, Len(s)) : s[p] = " "} IN
    IF hits = {} THEN -1
    ELSE (CHOOSE p \in hits : \A q \in hits : q <= p) - 1

RECURSIVE SplitLoopSkipsSplitChar(_, _, _)
\* The loop that goes on after the character at the split position.
SplitLoopSkipsSplitChar(cleaned_chunk, limit, chunks) ==
    IF Len(cleaned_chunk) > limit
      THEN LET found == RFindSpace(cleaned_chunk, limit)
               split_pos == IF found = -1 THEN limit ELSE found
           IN SplitLoopSkipsSplitChar(
                 LStrip(SubSeq(cleaned_chunk, split_pos + 2,
                               Len(cleaned_chunk))),
                 limit,
                 Append(chunks, SubSeq(cleaned_chunk, 1, split_pos)))
      ELSE Append(chunks, cleaned_chunk)

RECURSIVE SplitLoop(_, _, _)
\* while len(cleaned_chunk) > max_len: ...; sub_chunks.append(cleaned_chunk)
SplitLoop(cleaned_chunk, limit, chunks) ==
    IF Len(cleaned_chunk) > limit
      THEN LET found == RFindSpace(cleaned_chunk, limit)
               split_pos == IF found = -1 THEN limit ELSE found
           IN SplitLoop(LStrip(SubSeq(cleaned_chunk, split_pos + 1,
                                      Len(cleaned_chunk))),
                        limit,
                        Append(chunks, SubSeq(cleaned_chunk, 1, split_pos)))
      ELSE Append(chunks, cleaned_chunk)

validate_and_process_chunk_unguarded(text, limit) ==
    LET cleaned_chunk == Strip(RemoveUrls(text)) IN
    IF Len(cleaned_chunk) <= limit THEN <<cleaned_chunk>>
    ELSE SplitLoop(cleaned_chunk, limit, << >>)
validate_and_process_chunk(text, limit) ==
    LET cleaned_chunk == Strip(RemoveUrls(text)) IN
    IF cleaned_chunk = << >> THEN << >>
    ELSE IF Len(cleaned_chunk) <= limit THEN <<cleaned_chunk>>
    ELSE SplitLoop(cleaned_chunk, limit, << >>)

\* One call of validate_and_process_chunk.
ValidateAndProcessChunk ==
    /\ pc = "chunker"
    /\ sub_chunks' = validate_and_process_chunk(chunk, max_len)
    /\ pc' = "chunker_done"
    /\ UNCHANGED <<main_vars, gen_vars, upload_vars, ghost_vars, wav_exists,
                   chunk, max_len, text_blocks, original_chapters,
                   part_metadata, final_chunks, audio_chunks, tts_calls,
                   full_audio_np>>

InitChunker ==
    /\ num_dates = 1
    /\ date_idx = 1
    /\ pc = "chunker"
    /\ files_created = << >>
    /\ wav_exists = FALSE
    /\ mp3_size_mb = 0
    /\ total_duration_ms = 0
    /\ files_to_cleanup = << >>
    /\ branch = "none"
    /\ num_chunks = 0
    /\ chunk_duration_ms = 0
    /\ i = 0
    /\ attempt = 0
    /\ upload_result = "none"
    /\ trace = << >>
    /\ produced = {}
    /\ exports = << >>
    /\ upload_calls = << >>
    /\ upload_results = << >>
    /\ checked = {1}
    /\ cleanup_calls = 0
    /\ observe = FALSE
    /\ DateIdle
    /\ VoiceIdle
    /\ SelectIdle
    /\ Mp3Idle
    /\ StoreIdle
    /\ failed_dates = {}
    /\ upload_titles = << >>
    /\ chunk \in SeqsUpTo(Symbols, MaxChunkLen)
    /\ max_len \in 1..MaxMaxLen
    /\ sub_chunks = << >>
    /\ text_blocks = << >>
    /\ original_chapters = << >>
    /\ part_metadata = << >>
    /\ final_chunks = << >>
    /\ audio_chunks = << >>
    /\ tts_calls = << >>
    /\ full_audio_np = << >>

NextChunker == ValidateAndProcessChunk

SpecChunker == InitChunker /\ [][NextChunker]_vars

(***************************************************************************)
(* The synthesis loop of generate_and_upload_audio: for every chunk of     *)
(* final_chunks the token check, the call of the engine, and at the end    *)
(* the concatenation saved to TEMP_WAV_FILE.                               *)
(*                                                                         *)
(* A chunk is [encodes, tokens, speaks]: whether tokenizer.encode returns, *)
(* the number of tokens it returns, and whether TTS_CLIENT.tts returns.    *)
(***************************************************************************)
TokenCounts == {XTTS_TOKEN_LIMIT - 1, XTTS_TOKEN_LIMIT, XTTS_TOKEN_LIMIT + 1}

SynthesisChunks ==
    [encodes : {TRUE}, tokens : TokenCounts, speaks : BOOLEAN]
      \cup {[encodes |-> FALSE, tokens |-> 0, speaks |-> TRUE]}

\* The samples TTS_CLIENT.tts returns for chunk number k.
Buffer(k) == [n \in 1..k |-> k]

RECURSIVE ConcatenateReversed(_)
ConcatenateReversed(buffers) ==
    IF buffers = << >> THEN << >>
    ELSE ConcatenateReversed(Tail(buffers)) \o Head(buffers)
RECURSIVE Concatenate(_)
\* np.concatenate(audio_chunks)
Concatenate(buffers) ==
    IF buffers = << >> THEN << >>
    ELSE Head(buffers) \o Concatenate(Tail(buffers))

ExceedsTokenLimitOrMeetsIt(n) == n >= XTTS_TOKEN_LIMIT
\* if len(tokens) > XTTS_TOKEN_LIMIT
ExceedsTokenLimit(n) == n > XTTS_TOKEN_LIMIT

DEFAULT_SPEAKER == "Claribel Dervla"

\* The selection that trusts the configuration without looking at the disk.
SpeakerWavIfConfigured(cfg, exists) ==
    IF cfg.reference_voice_file # "" THEN cfg.reference_voice_file ELSE "None"

\* speaker_wav = config.get("reference_voice_file") if
\* config.get("reference_voice_file") and os.path.exists(...) else None
SpeakerWav(cfg, exists) ==
    IF cfg.reference_voice_file # "" /\ exists
      THEN cfg.reference_voice_file ELSE "None"

\* tts_kwargs = {}; then the key "speaker_wav" or the key "speaker"
TtsKwargs(path) ==
    IF path # "None" THEN {<<"speaker_wav", path>>}
    ELSE {<<"speaker", DEFAULT_SPEAKER>>}

\* The voice is chosen before the try block, once for the whole call.
SelectVoice ==
    /\ pc = "select_voice"
    /\ speaker_wav' = SpeakerWav(config, voice_file_exists)
    /\ tts_kwargs' = TtsKwargs(SpeakerWav(config, voice_file_exists))
    /\ pc' = "tokenize"
    /\ UNCHANGED <<num_dates, date_idx, files_created, checked, cleanup_calls,
                   observe, failed_dates, date_vars, select_vars, mp3_vars, store_vars,
                   config, voice_file_exists, tts_call_kwargs, upload_vars,
                   ghost_vars, wav_exists, gen_vars, text_vars>>

\* tokens = tokenizer.encode(sentence, lang="en") and the limit check.
Tokenize ==
    /\ pc = "tokenize"
    /\ i < Len(final_chunks)
    /\ LET sentence == final_chunks[i + 1] IN
       IF ~sentence.encodes \/ ExceedsTokenLimit(sentence.tokens)
         THEN \* continue
              /\ i' = i + 1
              /\ pc' = "tokenize"
         ELSE /\ i' = i
              /\ pc' = "tts"
    /\ UNCHANGED <<main_vars, upload_vars, ghost_vars, wav_exists, mp3_size_mb,
                   total_duration_ms, files_to_cleanup, branch, num_chunks,
                   chunk_duration_ms, text_vars>>

\* The engine gives up the whole date on the first chunk it cannot speak.
TtsAbortsOnFailure ==
    /\ pc = "tts"
    /\ tts_calls' = Append(tts_calls, i + 1)
    /\ IF final_chunks[i + 1].speaks
         THEN /\ audio_chunks' = Append(audio_chunks, Buffer(i + 1))
              /\ i' = i + 1
              /\ pc' = "tokenize"
         ELSE /\ audio_chunks' = audio_chunks
              /\ i' = i
              /\ pc' = "synth_none"
    /\ tts_call_kwargs' = Append(tts_call_kwargs, tts_kwargs)
    /\ UNCHANGED <<num_dates, date_idx, files_created, checked, cleanup_calls,
                   observe, failed_dates, date_vars, select_vars, mp3_vars, store_vars,
                   config, voice_file_exists, speaker_wav, tts_kwargs,
                   upload_vars, ghost_vars, wav_exists, mp3_size_mb,
                   total_duration_ms, files_to_cleanup, branch, num_chunks,
                   chunk_duration_ms, chunk, max_len, sub_chunks, text_blocks,
                   original_chapters, part_metadata, final_chunks,
                   full_audio_np>>

\* wav_chunk = TTS_CLIENT.tts(text=sentence, ...); audio_chunks.append(...)
Tts ==
    /\ pc = "tts"
    /\ tts_calls' = Append(tts_calls, i + 1)
    /\ audio_chunks' = IF final_chunks[i + 1].speaks
                         THEN Append(audio_chunks, Buffer(i + 1))
                         ELSE audio_chunks
    /\ i' = i + 1
    /\ pc' = "tokenize"
    /\ tts_call_kwargs' = Append(tts_call_kwargs, tts_kwargs)
    /\ UNCHANGED <<num_dates, date_idx, files_created, checked, cleanup_calls,
                   observe, failed_dates, date_vars, select_vars, mp3_vars, store_vars,
                   config, voice_file_exists, speaker_wav, tts_kwargs,
                   upload_vars, ghost_vars, wav_exists, mp3_size_mb,
                   total_duration_ms, files_to_cleanup, branch, num_chunks,
                   chunk_duration_ms, chunk, max_len, sub_chunks, text_blocks,
                   original_chapters, part_metadata, final_chunks,
                   full_audio_np>>

\* The loop end that saves a WAV file whether or not there is audio.
NoAudioGeneratedSavesWav ==
    /\ pc = "tokenize"
    /\ i >= Len(final_chunks)
    /\ audio_chunks = << >>
    /\ wav_exists' = TRUE
    /\ produced' = produced \cup {TEMP_WAV_FILE}
    /\ pc' = "synth_saved"
    /\ UNCHANGED <<main_vars, upload_vars, exports, upload_calls,
                   upload_results, upload_titles, gen_vars, text_vars>>

\* if not audio_chunks: return []
NoAudioGenerated ==
    /\ pc = "tokenize"
    /\ i >= Len(final_chunks)
    /\ audio_chunks = << >>
    /\ files_created' = << >>
    /\ pc' = "synth_none"
    /\ UNCHANGED <<num_dates, date_idx, checked, cleanup_calls, observe,
                   failed_dates, date_vars, voice_vars, select_vars, mp3_vars, store_vars,
                   upload_vars, ghost_vars, wav_exists, gen_vars, text_vars>>

\* full_audio_np = np.concatenate(audio_chunks); save_wav(..., TEMP_WAV_FILE)
SaveWav ==
    /\ pc = "tokenize"
    /\ i >= Len(final_chunks)
    /\ audio_chunks # << >>
    /\ full_audio_np' = Concatenate(audio_chunks)
    /\ wav_exists' = TRUE
    /\ produced' = produced \cup {TEMP_WAV_FILE}
    /\ pc' = "synth_saved"
    /\ UNCHANGED <<main_vars, upload_vars, exports, upload_calls,
                   upload_results, upload_titles, gen_vars, chunk, max_len,
                   sub_chunks, text_blocks, original_chapters, part_metadata,
                   final_chunks, audio_chunks, tts_calls>>

InitSynthesis ==
    /\ num_dates = 1
    /\ date_idx = 1
    /\ pc = "select_voice"
    /\ files_created = << >>
    /\ wav_exists = FALSE
    /\ mp3_size_mb = 0
    /\ total_duration_ms = 0
    /\ files_to_cleanup = << >>
    /\ branch = "none"
    /\ num_chunks = 0
    /\ chunk_duration_ms = 0
    /\ i = 0
    /\ attempt = 0
    /\ upload_result = "none"
    /\ trace = << >>
    /\ produced = {}
    /\ exports = << >>
    /\ upload_calls = << >>
    /\ upload_results = << >>
    /\ checked = {1}
    /\ cleanup_calls = 0
    /\ observe = FALSE
    /\ DateIdle
    /\ config \in [reference_voice_file : {"", "path/to/voice.wav"}]
    /\ voice_file_exists \in BOOLEAN
    /\ config.reference_voice_file = "" => ~voice_file_exists
    /\ speaker_wav = "None"
    /\ tts_kwargs = {}
    /\ tts_call_kwargs = << >>
    /\ SelectIdle
    /\ Mp3Idle
    /\ StoreIdle
    /\ failed_dates = {}
    /\ upload_titles = << >>
    /\ chunk = << >>
    /\ max_len = 0
    /\ sub_chunks = << >>
    /\ text_blocks = << >>
    /\ original_chapters = << >>
    /\ part_metadata = << >>
    /\ final_chunks \in SeqsUpTo(SynthesisChunks, MaxFinalChunks)
    /\ audio_chunks = << >>
    /\ tts_calls = << >>
    /\ full_audio_np = << >>

NextSynthesis ==
    \/ SelectVoice
    \/ Tokenize
    \/ Tts
    \/ NoAudioGenerated
    \/ SaveWav

SpecSynthesis == InitSynthesis /\ [][NextSynthesis]_vars

(***************************************************************************)
(* Reading the trace of an upload_audiobook call.                          *)
(***************************************************************************)
IsOpen(e) == e[1] \in {"open", "open_error"}
IsOpenError(e) == e[1] = "open_error"
IsPost(e) == e[1] = "post"
IsSleep(e) == e[1] = "sleep"
IsMissingFile(e) == e[1] = "open" /\ e[3] = FALSE
IsTransportError(e) == IsPost(e) /\ e[2] = 0
Is5xx(e) == IsPost(e) /\ e[2] \in 500..599
Is4xx(e) == IsPost(e) /\ e[2] \in 400..499
Is2xx(e) == IsPost(e) /\ e[2] \in 200..299
\* A success response as the remote store sends it: 2xx with a JSON body.
Is2xxJson(e) == Is2xx(e) /\ e[3] = TRUE
\* A retriable failure in the sense of the delivery protocol.
IsRetriableFailure(e) == Is5xx(e) \/ IsTransportError(e)

Posts(tr) == SelectSeq(tr, IsPost)
Opens(tr) == SelectSeq(tr, IsOpen)
Sleeps(tr) == SelectSeq(tr, IsSleep)
HttpAttempts(tr) == Len(Posts(tr))
Prefix(tr, k) == SubSeq(tr, 1, k)

UploadRunning == pc \in {"up_open", "up_post", "up_sleep"}
\* The call has returned or raised; its trace is kept until the next call.
UploadReturned == upload_result # "none"
UploadStep == UploadOpen \/ UploadPost \/ UploadSleep \/ UploadExhausted

\* Every attempt of the call saw one of: missing file, 2xx (JSON body),
\* 4xx, 5xx, transport error.
OnlyListedOutcomes(tr) ==
    \A e \in Range(tr) :
        /\ ~IsOpenError(e)
        /\ IsPost(e) => (IsTransportError(e) \/ Is2xxJson(e) \/ Is4xx(e) \/ Is5xx(e))

C3_ClientErrorIsFatal ==
    /\ \A k \in 1..Len(trace) :
         Is4xx(trace[k]) =>
            /\ k = Len(trace)
            /\ UploadReturned
            /\ upload_result = "false"
            /\ HttpAttempts(trace) = HttpAttempts(Prefix(trace, k))
    /\ (Len(trace) >= 2 /\ Is4xx(trace[2]))
          => /\ HttpAttempts(trace) = 1
             /\ Sleeps(trace) = << >>
             /\ upload_result = "false"

C3_Witness ==
    /\ UploadReturned
    /\ upload_result = "false"
    /\ trace = <<<<"open", 0, TRUE>>, <<"post", 403, FALSE>>>>

C3_WitnessLate ==
    /\ UploadReturned
    /\ HttpAttempts(trace) = 5
    /\ Is4xx(trace[Len(trace)])

(***************************************************************************)
(* C4 as stated.  The call returns true exactly when its last attempt got  *)
(* a 2xx; every response that is neither 2xx nor 5xx ends the call with    *)
(* false; every 2xx ends the call with true.                               *)
(***************************************************************************)
C4_TrueIffLastAttempt2xx ==
    /\ UploadReturned =>
          (upload_result = "true"
             <=> (trace # << >> /\ Is2xx(trace[Len(trace)])))
    /\ \A k \in 1..Len(trace) :
         (IsPost(trace[k]) /\ ~IsTransportError(trace[k])
            /\ ~Is2xx(trace[k]) /\ ~Is5xx(trace[k]))
           => (k = Len(trace) /\ upload_result = "false")
    /\ \A k \in 1..Len(trace) :
         Is2xx(trace[k]) => (k = Len(trace) /\ upload_result = "true")

\* A response for which raise_for_status stays silent (status outside
\* 400..599) and whose body parses as JSON.
IsAcceptedJson(e) ==
    IsPost(e) /\ ~IsTransportError(e) /\ e[2] \notin 400..599 /\ e[3] = TRUE

(***************************************************************************)
(* C4, amended.  The call returns true exactly when its last attempt got   *)
(* a response whose status is not 4xx or 5xx (1xx, 2xx, 3xx) and whose     *)
(* body parses as JSON; such a response always ends the call with true,    *)
(* and a 4xx response always ends it with false, without further attempts. *)
(***************************************************************************)
C4_TrueIffLastAttemptAccepted ==
    /\ UploadReturned =>
          (upload_result = "true"
             <=> (trace # << >> /\ IsAcceptedJson(trace[Len(trace)])))
    /\ \A k \in 1..Len(trace) :
         Is4xx(trace[k]) => (k = Len(trace) /\ upload_result = "false")
    /\ \A k \in 1..Len(trace) :
         IsAcceptedJson(trace[k]) => (k = Len(trace) /\ upload_result = "true")

C4_Witness ==
    /\ UploadReturned
    /\ upload_result = "true"
    /\ trace[Len(trace)] = <<"post", 304, TRUE>>
    /\ HttpAttempts(trace) = 2

(***************************************************************************)
(* C5.  No delay precedes the first attempt; the delay slept before        *)
(* attempt k (the first attempt being k = 0) is 10 * 2^(k-1) seconds: 10,  *)
(* 20, 40, 80 before the 2nd to 5th attempt, whatever kind of retriable    *)
(* failure the attempt before ended in, and nothing else is slept.         *)
(***************************************************************************)
C5_Delays == <<10, 20, 40, 80>>

C5_BackoffSchedule ==
    /\ trace # << >> => IsOpen(trace[1])
    /\ Len(Sleeps(trace)) <= 4
    /\ \A k \in 1..Len(Sleeps(trace)) : Sleeps(trace)[k][2] = C5_Delays[k]
    /\ \A p \in 2..Len(trace) :
         IsOpen(trace[p]) =>
            LET k == Len(Opens(Prefix(trace, p - 1))) IN
            /\ IsSleep(trace[p - 1])
            /\ trace[p - 1][2] = C5_Delays[k]
    /\ \A p \in 1..Len(trace) :
         IsSleep(trace[p]) =>
            /\ p > 1
            /\ IsPost(trace[p - 1])
            /\ Len(Sleeps(Prefix(trace, p))) = HttpAttempts(Prefix(trace, p))
    /\ \A p \in 1..Len(trace) :
         (IsRetriableFailure(trace[p]) /\ p < Len(trace))
           => trace[p + 1] =
                <<"sleep", C5_Delays[HttpAttempts(Prefix(trace, p))], TRUE>>

C5_Witness ==
    /\ Sleeps(trace) = <<<<"sleep", 10, TRUE>>, <<"sleep", 20, TRUE>>,
                         <<"sleep", 40, TRUE>>, <<"sleep", 80, TRUE>>>>
    /\ HttpAttempts(trace) = 5
    /\ Is5xx(Posts(trace)[1])
    /\ IsTransportError(Posts(trace)[2])

(***************************************************************************)
(* C6.  Every attempt starts by opening the local file, before its HTTP    *)
(* request; an attempt that finds the file missing - the first or a later  *)
(* one - makes no HTTP request and ends the call with false: no sleep, no  *)
(* further attempt.                                                        *)
(***************************************************************************)
C6_OpenPerAttemptMissingIsFatal ==
    /\ \A p \in 1..Len(trace) :
         IsPost(trace[p]) => (p > 1 /\ trace[p - 1] = <<"open", 0, TRUE>>)
    /\ \A p \in 1..Len(trace) :
         IsOpen(trace[p]) =>
            Len(Opens(Prefix(trace, p))) = HttpAttempts(Prefix(trace, p)) + 1
    /\ \A p \in 1..Len(trace) :
         IsMissingFile(trace[p]) =>
            /\ p = Len(trace)
            /\ UploadReturned
            /\ upload_result = "false"
    /\ (UploadReturned /\ trace # << >> /\ IsPost(trace[Len(trace)]))
         => Len(Opens(trace)) = HttpAttempts(trace)

C6_Witness ==
    /\ UploadReturned
    /\ upload_result = "false"
    /\ IsMissingFile(trace[Len(trace)])
    /\ HttpAttempts(trace) = 2
    /\ Len(Opens(trace)) = 3

(***************************************************************************)
(* C7.  The Parts of a date are exported and uploaded in ascending part    *)
(* order, and the first upload that returns false is the last one of the   *)
(* date: no later Part is exported or uploaded.                            *)
(***************************************************************************)
C7_FailFastWithinDate ==
    /\ Len(exports) = Len(upload_calls)
    /\ Len(upload_results) <= Len(upload_calls)
    /\ Len(upload_calls) <= Len(upload_results) + 1
    /\ branch = "split" =>
         \A k \in 1..Len(upload_calls) :
            /\ upload_calls[k] = ChunkFile(date_idx, k, num_chunks)
            /\ exports[k][1] = ChunkFile(date_idx, k, num_chunks)
    /\ \A k \in 1..Len(upload_results) :
         upload_results[k] = "false" =>
            /\ k = Len(upload_calls)
            /\ k = Len(exports)
            /\ pc = "cleanup"

C7_Witness ==
    /\ branch = "split"
    /\ num_chunks = 3
    /\ upload_results = <<"true", "false">>
    /\ Len(exports) = 2
    /\ pc = "cleanup"

(***************************************************************************)
(* C8.  A failure on one date (a failed or exhausted upload, an exception  *)
(* in the existence check, in fetching, synthesis, encoding, export or     *)
(* upload) does not keep the following dates from being attempted: the     *)
(* run never stops before its last date, and when it is done every date    *)
(* of the batch has reached its existence check.                           *)
(***************************************************************************)
C8_EveryDateAttempted ==
    /\ pc # "done" => date_idx <= num_dates
    /\ pc # "done" => ENABLED Next
    /\ pc = "done" => checked = 1..num_dates
    /\ (pc # "done" /\ pc # "check_existing") => checked = 1..date_idx
    /\ pc = "check_existing" => checked = 1..(date_idx - 1)
    /\ failed_dates \subseteq checked

C8_Witness ==
    /\ pc = "done"
    /\ num_dates = 2
    /\ failed_dates = {1, 2}
    /\ checked = {1, 2}

(***************************************************************************)
(* C9 as stated.  Whatever happened on a date, the list handed to cleanup  *)
(* holds every artifact written for it: the intermediate WAV file and      *)
(* every exported Part file.                                               *)
(***************************************************************************)
C9_CleanupGetsEveryArtifact ==
    pc = "cleanup" => produced \subseteq Range(files_created)

(***************************************************************************)
(* C10.  A date whose encoded size is at most the 15 MB ceiling (15 MB     *)
(* included) is exported as one Part covering the full duration and has    *)
(* exactly one upload started; a larger one is planned as                  *)
(* ceil(size / ceiling) Parts, 3 for 37 MB and for 38 MB.                  *)
(***************************************************************************)
C10_PartitionDecision ==
    /\ branch = "single" <=> mp3_size_mb \in 1..15
    /\ branch = "split" <=> mp3_size_mb > 15
    /\ branch = "single" =>
         /\ Len(upload_calls) <= 1
         /\ exports \in {<< >>, <<<<SingleFile(date_idx), 0, total_duration_ms>>>>}
         /\ upload_calls = [k \in 1..Len(exports) |-> exports[k][1]]
         /\ (pc = "cleanup" /\ date_idx \notin failed_dates)
               => Len(upload_calls) = 1
    /\ branch = "split" =>
         /\ 15 * (num_chunks - 1) < mp3_size_mb
         /\ mp3_size_mb <= 15 * num_chunks
         /\ Len(exports) <= num_chunks
         /\ mp3_size_mb \in {37, 38} => num_chunks = 3

C10_Witness ==
    /\ branch = "single"
    /\ mp3_size_mb = 15
    /\ pc = "cleanup"
    /\ Len(upload_calls) = 1
    /\ exports = <<<<SingleFile(date_idx), 0, MaxDurationMs>>>>

C10_WitnessSplit ==
    /\ branch = "split"
    /\ mp3_size_mb = 37
    /\ num_chunks = 3
    /\ Len(upload_calls) = 3
    /\ pc = "cleanup"

(***************************************************************************)
(* C11.  When a date is split into n Parts, the i-th export (1 <= i <= n)  *)
(* writes the file suffixed _part_i_of_n, the i-th upload call carries     *)
(* that file and the title "<base title> (Part i of n)", and exports and   *)
(* uploads happen in increasing i; 37 MB gives _part_1_of_3, _part_2_of_3, *)
(* _part_3_of_3.                                                           *)
(***************************************************************************)
C11_PartNamesAndTitles ==
    branch = "split" =>
      /\ Len(exports) <= num_chunks
      /\ Len(upload_calls) = Len(exports)
      /\ Len(upload_titles) = Len(exports)
      /\ Len(exports) \in {i, i + 1}
      /\ \A k \in 1..Len(exports) :
           /\ exports[k][1] = <<"mp3", date_idx, k, num_chunks>>
           /\ upload_calls[k] = exports[k][1]
           /\ upload_titles[k] =
                <<"Daily Digest for", date_idx, "(Part", k, "of", num_chunks, ")">>
      /\ (mp3_size_mb = 37 /\ Len(exports) = 3) =>
           [k \in 1..3 |-> <<exports[k][1][3], exports[k][1][4]>>]
             = <<<<1, 3>>, <<2, 3>>, <<3, 3>>>>

C11_Witness ==
    /\ branch = "split"
    /\ mp3_size_mb = 37
    /\ date_idx = 2
    /\ pc = "cleanup"
    /\ upload_results = <<"true", "true", "true">>
    /\ upload_titles[3] = <<"Daily Digest for", 2, "(Part", 3, "of", 3, ")">>
    /\ upload_calls[3] = <<"mp3", 2, 3, 3>>

(***************************************************************************)
(* Reading the metadata built for the Parts of a date.                     *)
(***************************************************************************)
\* The values of a title-keyed mapping.
DictValues(dict) == {dict[p][2] : p \in 1..Len(dict)}
DictKeys(dict) == {dict[p][1] : p \in 1..Len(dict)}
PartsBuilt == 1..Len(part_metadata)

(***************************************************************************)
(* C12 as stated.  Every Part with a non-empty time range has, in the      *)
(* chapter mapping of its metadata, at least one chapter whose start time  *)
(* is 0.                                                                   *)
(***************************************************************************)
C12_EveryPartStartsWithAChapter ==
    branch = "split" =>
      \A k \in PartsBuilt :
         part_metadata[k].end_ms > part_metadata[k].start_ms
            => 0 \in DictValues(part_metadata[k].metadata.chapters_json)

\* The positions of the original chapters whose start time t satisfies
\* lo <= t < hi.
ChaptersStartingIn(lo, hi) ==
    {j \in 1..Len(original_chapters) :
        LET t == original_chapters[j].start_time_ms IN
        lo * t[2] <= t[1] /\ t[1] < hi * t[2]}

\* v is (t - lo) in whole seconds, for a start time t >= lo.
IsWholeSecondsFrom(v, t, lo) ==
    /\ v \in Nat
    /\ 1000 * v * t[2] <= t[1] - lo * t[2]
    /\ t[1] - lo * t[2] < 1000 * (v + 1) * t[2]

DistinctTitles(list) ==
    \A p, q \in 1..Len(list) : list[p].title = list[q].title => p = q

(***************************************************************************)
(* C13.  The re-slicing of a Part retains exactly the original chapters    *)
(* whose start time t satisfies chunk_start_ms <= t < chunk_end_ms, in     *)
(* their original order, each re-based to t - chunk_start_ms in whole      *)
(* seconds; every entry of the emitted mapping is such a chapter, and      *)
(* when the retained titles are distinct the mapping is the retained list. *)
(***************************************************************************)
C13_ReslicingRetainsRange ==
    branch = "split" =>
      \A k \in PartsBuilt :
        LET part == part_metadata[k]
            chunk_start_ms == part.start_ms
            chunk_end_ms == part.start_ms + part.segment_ms
            inside == ChaptersStartingIn(chunk_start_ms, chunk_end_ms)
            rank(j) == Cardinality({m \in inside : m <= j})
            dict == part.metadata.chapters_json
        IN
        /\ Len(part.retained) = Cardinality(inside)
        /\ \A j \in inside :
              /\ part.retained[rank(j)].title = original_chapters[j].title
              /\ IsWholeSecondsFrom(part.retained[rank(j)].start_time,
                                    original_chapters[j].start_time_ms,
                                    chunk_start_ms)
        /\ \A p \in 1..Len(dict) :
              \E j \in inside :
                 /\ dict[p][1] = original_chapters[j].title
                 /\ IsWholeSecondsFrom(dict[p][2],
                                       original_chapters[j].start_time_ms,
                                       chunk_start_ms)
        /\ DistinctTitles(part.retained) =>
              dict = [q \in 1..Len(part.retained) |->
                        <<part.retained[q].title, part.retained[q].start_time>>]

\* The second of two Parts of the scenario audio: B starts exactly where
\* the Part starts, C 25 s later; B is not among the chapters of Part 1.
C13_Witness ==
    /\ branch = "split"
    /\ text_blocks = ScenarioBlocks
    /\ total_duration_ms = 100000
    /\ Len(part_metadata) = 2
    /\ part_metadata[2].start_ms = 50000
    /\ part_metadata[1].metadata.chapters_json = <<<<"A", 0>>>>
    /\ part_metadata[2].metadata.chapters_json = <<<<"B", 0>>, <<"C", 25>>>>

\* The chapter list has been computed for the blocks of this date.
ChapterListBuilt == pc \in {"md_chunk", "md_done"} /\ branch = "split"

RECURSIVE Gcd(_, _)
Gcd(a, b) == IF b = 0 THEN a ELSE Gcd(b, a % b)

\* A quotient <<numerator, denominator>> in lowest terms.
Lowest(x) == LET g == Gcd(x[1], x[2]) IN <<x[1] \div g, x[2] \div g>>

\* The sum of the character lengths of the blocks before block j.
CharsBefore(j) == SumTextLen(SubSeq(text_blocks, 1, j - 1))

(***************************************************************************)
(* C14.  The full chapter list has one chapter per text block, in block    *)
(* order, and the start time of block j is (characters of the blocks       *)
(* before j / characters of all blocks) * total_duration_ms; with no       *)
(* characters at all every start time is 0.  Lengths 100, 50, 50 and       *)
(* 100000 ms give starts 0, 50000, 75000.                                  *)
(***************************************************************************)
C14_ChapterStartFormula ==
    ChapterListBuilt =>
      LET total_chars == SumTextLen(text_blocks) IN
      /\ Len(original_chapters) = Len(text_blocks)
      /\ \A j \in 1..Len(text_blocks) :
            LET t == original_chapters[j].start_time_ms IN
            /\ original_chapters[j].title = text_blocks[j].title
            /\ t[2] > 0
            /\ total_chars > 0 =>
                  Lowest(t) = Lowest(<<CharsBefore(j) * total_duration_ms,
                                       total_chars>>)
            /\ total_chars = 0 => t[1] = 0
      /\ (text_blocks = ScenarioBlocks /\ total_duration_ms = 100000) =>
            /\ original_chapters[1].start_time_ms[1] = 0
            /\ original_chapters[2].start_time_ms[1]
                  = 50000 * original_chapters[2].start_time_ms[2]
            /\ original_chapters[3].start_time_ms[1]
                  = 75000 * original_chapters[3].start_time_ms[2]

C14_Witness ==
    /\ ChapterListBuilt
    /\ text_blocks = ScenarioBlocks
    /\ total_duration_ms = 100000
    /\ Len(original_chapters) = 3
    /\ original_chapters[3].title = "C"

\* Blocks without a single character.
C14_WitnessNoChars ==
    /\ ChapterListBuilt
    /\ Len(text_blocks) = 2
    /\ SumTextLen(text_blocks) = 0
    /\ total_duration_ms = 4000
    /\ \A j \in 1..2 : original_chapters[j].start_time_ms = <<0, 1>>

\* x <= y for quotients with positive denominators.
QuotientLeq(x, y) ==
    LET a == Lowest(x)
        b == Lowest(y)
    IN a[1] * b[2] <= b[1] * a[2]

(***************************************************************************)
(* C15.  The start times of the full chapter list never decrease along     *)
(* the blocks, the first one is 0, and none exceeds the total duration.    *)
(***************************************************************************)
C15_ChapterStartsMonotone ==
    ChapterListBuilt =>
      /\ \A j \in 1..(Len(original_chapters) - 1) :
            QuotientLeq(original_chapters[j].start_time_ms,
                        original_chapters[j + 1].start_time_ms)
      /\ original_chapters # << >> =>
            original_chapters[1].start_time_ms[1] = 0
      /\ \A j \in 1..Len(original_chapters) :
            /\ original_chapters[j].start_time_ms[1] >= 0
            /\ QuotientLeq(original_chapters[j].start_time_ms,
                           <<total_duration_ms, 1>>)

\* Three blocks, the second one empty: the starts are 0 < t = t < duration.
C15_Witness ==
    /\ ChapterListBuilt
    /\ total_duration_ms = 4000
    /\ Len(original_chapters) = 3
    /\ text_blocks[1].text_len = 1
    /\ text_blocks[2].text_len = 0
    /\ text_blocks[3].text_len = 2
    /\ original_chapters[2].start_time_ms = original_chapters[3].start_time_ms
    /\ original_chapters[2].start_time_ms[1] > 0

(***************************************************************************)
(* C16.  Whatever the text and whatever max_chars >= 1, every chunk that   *)
(* validate_and_process_chunk returns is at most max_chars long, be it     *)
(* cut at the last space before the limit or cut hard at the limit.        *)
(***************************************************************************)
C16_ChunksWithinLimit ==
    pc = "chunker_done" =>
      \A k \in 1..Len(sub_chunks) : Len(sub_chunks[k]) <= max_len

\* "aaa a" with a limit of 2: a hard cut, then a cut at a space.
C16_Witness ==
    /\ pc = "chunker_done"
    /\ chunk = <<"a", "a", "a", " ", "a">>
    /\ max_len = 2
    /\ sub_chunks = <<<<"a", "a">>, <<"a">>, <<"a">>>>

\* Every run of non-whitespace symbols of the text starts with a URL.
OnlyUrlsAndWhitespace(text) ==
    \A p \in 1..Len(text) :
       text[p] \in {"a", "b"} =>
          \E q \in 1..(p - 1) :
             /\ text[q] = "URL"
             /\ \A r \in q..p : text[r] \notin Whitespace

(***************************************************************************)
(* C17.  For a unit that is empty, whitespace-only or made of bare URLs    *)
(* only, validate_and_process_chunk returns no chunk at all; and no chunk  *)
(* it ever returns is the empty string.                                    *)
(***************************************************************************)
C17_NothingFromBlankUnits ==
    pc = "chunker_done" =>
      /\ OnlyUrlsAndWhitespace(chunk) => sub_chunks = << >>
      /\ \A k \in 1..Len(sub_chunks) : sub_chunks[k] # << >>

C17_Witness ==
    /\ pc = "chunker_done"
    /\ chunk = <<" ", "URL", "a", "TAB", "URL">>
    /\ sub_chunks = << >>

(***************************************************************************)
(* Reading the synthesis loop.                                             *)
(***************************************************************************)
ChunkNumbers == 1..Len(final_chunks)
\* How often chunk k was passed to the engine.
TtsCallsOf(k) == Cardinality({p \in 1..Len(tts_calls) : tts_calls[p] = k})
\* How many samples of chunk k the saved audio holds.
SamplesOf(k) ==
    Cardinality({p \in 1..Len(full_audio_np) : full_audio_np[p] = k})
\* The loop is through with chunk k.
LoopPassed(k) == k <= i
LoopOver == pc \in {"synth_none", "synth_saved"}
WithinTokenLimit(c) == c.encodes /\ c.tokens <= 390
OverTokenLimit(c) == c.encodes /\ c.tokens > 390

(***************************************************************************)
(* C18.  A chunk of more than 390 tokens is never passed to the engine     *)
(* and is not split (no call is made for it in any form); every chunk of   *)
(* at most 390 tokens, 390 included, is passed to the engine exactly once, *)
(* and the audio the engine returns for it is part of the saved audio.     *)
(***************************************************************************)
C18_TokenCeiling ==
    /\ Len(tts_calls) <= Len(final_chunks)
    /\ \A p \in 1..Len(tts_calls) : tts_calls[p] \in ChunkNumbers
    /\ \A k \in ChunkNumbers :
         LET c == final_chunks[k] IN
         /\ OverTokenLimit(c) =>
               /\ TtsCallsOf(k) = 0
               /\ SamplesOf(k) = 0
         /\ (WithinTokenLimit(c) /\ LoopPassed(k)) => TtsCallsOf(k) = 1
         /\ (WithinTokenLimit(c) /\ c.speaks /\ pc = "synth_saved")
               => SamplesOf(k) = Len(Buffer(k))

C18_Witness ==
    /\ pc = "synth_saved"
    /\ Len(final_chunks) = 3
    /\ final_chunks[1] = [encodes |-> TRUE, tokens |-> 390, speaks |-> TRUE]
    /\ final_chunks[2].tokens = 391
    /\ final_chunks[3] = [encodes |-> TRUE, tokens |-> 389, speaks |-> TRUE]
    /\ tts_calls = <<1, 3>>
    /\ full_audio_np = <<1, 3, 3, 3>>

(***************************************************************************)
(* C19.  A chunk for which the engine or the tokenizer raises is skipped   *)
(* and never retried: no chunk is passed to the engine more than once, a   *)
(* chunk that cannot be tokenized is not passed at all, a failed chunk     *)
(* leaves no audio, and the loop goes on to the end of the chunk list      *)
(* whatever failed on the way.                                             *)
(***************************************************************************)
C19_FailedChunkIsSkipped ==
    /\ \A k \in ChunkNumbers :
         LET c == final_chunks[k] IN
         /\ TtsCallsOf(k) <= 1
         /\ ~c.encodes => TtsCallsOf(k) = 0
         /\ (~c.encodes \/ ~c.speaks) =>
               /\ Buffer(k) \notin Range(audio_chunks)
               /\ SamplesOf(k) = 0
         /\ (LoopOver /\ WithinTokenLimit(c)) => TtsCallsOf(k) = 1
    /\ LoopOver => i = Len(final_chunks)
    /\ ~LoopOver => ENABLED NextSynthesis

C19_Witness ==
    /\ pc = "synth_saved"
    /\ Len(final_chunks) = 3
    /\ final_chunks[1] = [encodes |-> TRUE, tokens |-> 389, speaks |-> FALSE]
    /\ final_chunks[2] = [encodes |-> FALSE, tokens |-> 0, speaks |-> TRUE]
    /\ final_chunks[3] = [encodes |-> TRUE, tokens |-> 389, speaks |-> TRUE]
    /\ tts_calls = <<1, 3>>
    /\ audio_chunks = <<Buffer(3)>>

\* The chunks the engine returned audio for, in the order of the calls.
SpokenCalls == SelectSeq(tts_calls, LAMBDA k : final_chunks[k].speaks)

(***************************************************************************)
(* C20.  Chunks are passed to the engine one after another in the order    *)
(* of the chunk list, the buffers kept are those of the successful calls   *)
(* in that order, and the saved audio is their concatenation: the samples  *)
(* of an earlier chunk come before those of a later one and no buffer      *)
(* appears twice.                                                          *)
(***************************************************************************)
C20_ConcatenationInOrder ==
    /\ \A p, q \in 1..Len(tts_calls) : p < q => tts_calls[p] < tts_calls[q]
    /\ \A p \in 1..Len(tts_calls) : tts_calls[p] <= i
    /\ audio_chunks = [p \in 1..Len(SpokenCalls) |-> Buffer(SpokenCalls[p])]
    /\ pc = "synth_saved" =>
         /\ \A p, q \in 1..Len(full_audio_np) :
               p < q => full_audio_np[p] <= full_audio_np[q]
         /\ \A k \in ChunkNumbers :
               SamplesOf(k) = IF k \in Range(SpokenCalls) THEN Len(Buffer(k)) ELSE 0
         /\ \A p \in 1..Len(full_audio_np) : full_audio_np[p] \in Range(SpokenCalls)

C20_Witness ==
    /\ pc = "synth_saved"
    /\ tts_calls = <<1, 2, 3>>
    /\ \A k \in 1..3 : final_chunks[k].speaks
    /\ full_audio_np = <<1, 2, 2, 3, 3, 3>>

(***************************************************************************)
(* Dates without content.                                                  *)
(***************************************************************************)
\* The text of this date is blank, as fetched or once its links are removed.
NoContent == full_text \in {"blank", "blank_when_cleaned"}

\* C21: a date whose fetched text is blank goes from the source fetch
\* straight to cleanup, and one whose text is blank once cleaned gets no
\* further than the entry of generate_and_upload_audio; neither reaches
\* synthesis, writes a file, exports or uploads anything, cleanup is handed
\* the empty list, and the date is not recorded as failed.
C21_NoContentIsSkipped ==
    NoContent =>
      /\ pc \in {"generate", "cleanup"}
      /\ full_text = "blank" => pc = "cleanup"
      /\ files_created = << >>
      /\ produced = {}
      /\ exports = << >>
      /\ upload_calls = << >>
      /\ date_idx \notin failed_dates

\* The second date of a batch has no content and is about to be cleaned up.
C21_Witness ==
    /\ pc = "cleanup"
    /\ full_text = "blank"
    /\ date_idx = 2
    /\ files_created = << >>

\* The text of a date is blank only after its links are removed, and
\* generate_and_upload_audio has returned the empty list.
C21_WitnessCleaned ==
    /\ pc = "cleanup"
    /\ full_text = "blank_when_cleaned"
    /\ files_created = << >>

(***************************************************************************)
(* A date whose chunks are all skipped.                                    *)
(***************************************************************************)
\* Chunk c leaves no buffer: it has too many tokens, cannot be tokenized,
\* or the engine fails on it.
IsSkipped(c) == ~WithinTokenLimit(c) \/ ~c.speaks

\* C22: when the synthesis loop has ended and every chunk was skipped (or
\* there was no chunk at all), generate_and_upload_audio has returned the
\* empty list: no WAV file was saved, nothing was exported or uploaded.
C22_NoAudioNoParts ==
    (LoopOver /\ \A k \in ChunkNumbers : IsSkipped(final_chunks[k])) =>
      /\ pc = "synth_none"
      /\ audio_chunks = << >>
      /\ files_created = << >>
      /\ ~wav_exists
      /\ produced = {}
      /\ exports = << >>
      /\ upload_calls = << >>

\* Three chunks, one skipped by the token guard, one by a tokenization
\* failure and one by a failure of the engine.
C22_Witness ==
    /\ pc = "synth_none"
    /\ Len(final_chunks) = 3
    /\ \E k \in ChunkNumbers : OverTokenLimit(final_chunks[k])
    /\ \E k \in ChunkNumbers : ~final_chunks[k].encodes
    /\ \E k \in ChunkNumbers :
         WithinTokenLimit(final_chunks[k]) /\ ~final_chunks[k].speaks
    /\ tts_calls # << >>

(***************************************************************************)
(* The existence check.                                                    *)
(***************************************************************************)
\* The listing was read and holds the base title of this date.
AlreadyExists ==
    /\ existing_response.status = 200
    /\ existing_response.parses
    /\ BaseTitle(date_idx) \in existing_response.titles

\* C23: once the listing holds the title "Daily Digest for <date>", the date
\* is at its cleanup with nothing fetched, written, exported or uploaded
\* and the empty list for cleanup; from there the run goes on to the
\* existence check of the next date, or is done after the last one.
C23_ExistingDateIsSkipped ==
    AlreadyExists =>
      /\ pc = "cleanup"
      /\ full_text = "none"
      /\ files_created = << >>
      /\ produced = {}
      /\ exports = << >>
      /\ upload_calls = << >>
      /\ date_idx \notin failed_dates
      /\ date_idx < num_dates =>
           ENABLED (Cleanup /\ pc' = "check_existing"
                            /\ date_idx' = date_idx + 1)
      /\ date_idx = num_dates => ENABLED (Cleanup /\ pc' = "done")

\* The first of two dates is already in the remote store.
C23_Witness ==
    /\ AlreadyExists
    /\ pc = "cleanup"
    /\ date_idx = 1
    /\ num_dates = 2

\* The listing endpoint answered with a status other than 200, or the
\* request raised a network error (status 0).
ListingFailed ==
    existing_response # NoResponse /\ existing_response.status # 200

\* C24: a step of the existence check that meets a non-200 answer or a
\* network error goes on to the source fetch of the same date: the date is
\* neither skipped nor recorded as failed, and the run is not ended.
C24_ExistenceCheckFailsOpen ==
    [][(pc = "check_existing" /\ ListingFailed') =>
          /\ pc' = "process_emails"
          /\ date_idx' = date_idx
          /\ failed_dates' = failed_dates]_vars

\* After a network error in the existence check the date was generated and
\* its single Part uploaded.
C24_Witness ==
    /\ existing_response.status = 0
    /\ pc = "cleanup"
    /\ upload_results = <<"true">>

\* A 500 answer whose body lists the title of the date: the date is
\* processed all the same.
C24_WitnessListed ==
    /\ existing_response.status = 500
    /\ BaseTitle(date_idx) \in existing_response.titles
    /\ pc = "synthesize"

(***************************************************************************)
(* Voice selection.                                                        *)
(***************************************************************************)
\* The keys of a selector.
SelectorKeys(kwargs) == {kv[1] : kv \in kwargs}

\* C25: once the voice has been selected, the selector holds exactly one of
\* the keys speaker_wav and speaker: speaker_wav with the configured path
\* if and only if a path is configured and the file exists, otherwise
\* speaker with the default voice name; and every call of the engine,
\* whichever chunk it is for, was given that selector.
C25_OneVoiceSelector ==
    pc # "select_voice" =>
      /\ Cardinality(tts_kwargs) = 1
      /\ SelectorKeys(tts_kwargs) \in {{"speaker_wav"}, {"speaker"}}
      /\ SelectorKeys(tts_kwargs) = {"speaker_wav"} <=>
           (config.reference_voice_file # "" /\ voice_file_exists)
      /\ SelectorKeys(tts_kwargs) = {"speaker_wav"} =>
           tts_kwargs = {<<"speaker_wav", config.reference_voice_file>>}
      /\ SelectorKeys(tts_kwargs) = {"speaker"} =>
           tts_kwargs = {<<"speaker", "Claribel Dervla">>}
      /\ Len(tts_call_kwargs) = Len(tts_calls)
      /\ \A k \in 1..Len(tts_call_kwargs) : tts_call_kwargs[k] = tts_kwargs

\* Three chunks were spoken with the reference voice.
C25_Witness ==
    /\ pc = "synth_saved"
    /\ Len(tts_call_kwargs) = 3
    /\ tts_call_kwargs[1] = {<<"speaker_wav", "path/to/voice.wav">>}

\* A reference voice is configured but its file is missing: the default
\* voice speaks.
C25_WitnessMissingFile ==
    /\ pc = "synth_saved"
    /\ config.reference_voice_file # ""
    /\ ~voice_file_exists
    /\ Len(tts_call_kwargs) = 2
    /\ tts_call_kwargs[2] = {<<"speaker", "Claribel Dervla">>}

(***************************************************************************)
(* The exit status.                                                        *)
(***************************************************************************)
\* C26 as stated: when the process has ended and a fatal condition occurred
\* during the run (an upload of some date ended in failure, or the engine
\* could not be loaded), its exit status is not zero.
C26_ExitStatusReflectsFatal ==
    (pc = "exited" /\ fatal_conditions # {}) => exit_status # 0

(***************************************************************************)
(* The chapter mapping of a Part.                                          *)
(***************************************************************************)
\* The chapters of Part k in the order in which the mapping is built from
\* them: for the single file the chapter list in whole seconds, for a Part
\* of a split the retained chapters after the "chapter at time 0" step.
ChaptersOfPart(k) ==
    IF branch = "single"
      THEN LET chapters == create_chapter_list(total_duration_ms, text_blocks)
           IN [j \in 1..Len(chapters) |->
                 [title |-> chapters[j].title,
                  start_time |-> IntSeconds(chapters[j].start_time_ms)]]
      ELSE EnsureChapterAtZero(part_metadata[k].retained)

\* The position of the last chapter of the list that has the title.
LastWithTitle(list, title) ==
    CHOOSE k \in 1..Len(list) :
       /\ list[k].title = title
       /\ \A m \in (k + 1)..Len(list) : list[m].title # title

\* C27: the chapter mapping of every Part has exactly the titles of the
\* chapters of that Part as its keys, each key once, and the value of a key
\* is the start time of the last chapter of the Part with that title.
C27_MappingKeyedByTitle ==
    \A k \in PartsBuilt :
      LET list == ChaptersOfPart(k)
          dict == part_metadata[k].metadata.chapters_json
      IN /\ DictKeys(dict) = {list[j].title : j \in 1..Len(list)}
         /\ \A p, q \in 1..Len(dict) : dict[p][1] = dict[q][1] => p = q
         /\ \A p \in 1..Len(dict) :
              dict[p][2] = list[LastWithTitle(list, dict[p][1])].start_time

\* A single file of 4 s with the chapters A, B, A of equal length: A starts
\* at 0 s and again at 2 s, and the mapping holds A with 2.
C27_Witness ==
    /\ branch = "single"
    /\ pc = "md_done"
    /\ text_blocks = <<[title |-> "A", text_len |-> 1],
                       [title |-> "B", text_len |-> 1],
                       [title |-> "A", text_len |-> 1]>>
    /\ total_duration_ms = 4000
    /\ part_metadata[1].metadata.chapters_json = <<<<"A", 2>>, <<"B", 1>>>>

\* A Part of a split that retains two chapters of the same title with
\* different start times.
C27_WitnessSplit ==
    /\ branch = "split"
    /\ \E k \in PartsBuilt :
         LET r == part_metadata[k].retained IN
         \E p, q \in 1..Len(r) :
            /\ p < q
            /\ r[p].title = r[q].title
            /\ r[p].start_time # r[q].start_time
            /\ Len(part_metadata[k].metadata.chapters_json) < Len(r)

(***************************************************************************)
(* upload_mp3.upload_audiobook.                                            *)
(***************************************************************************)
\* The number of uploads planned for a file: one at up to 35 MB, otherwise
\* one per part.
PlannedUploads ==
    IF mp3_size_mb <= 35 THEN 1 ELSE CeilDiv(mp3_size_mb, 35)

C28_WitnessAllParts ==
    /\ pc = "mp3_returned"
    /\ mp3_size_mb = 71
    /\ upload_results = <<"true", "true", "true">>
    /\ mp3_return = "true"

(***************************************************************************)
(* The order of dates and cleanups.                                        *)
(***************************************************************************)
\* The date of a local artifact name.
DateOf(file) == file[2]

\* C29: the existence checks begin in ascending order of the dates, one
\* date at a time: when the check of a date begins, cleanup has been called
\* once for every earlier date, and while a date is being processed, once
\* for every earlier date and not yet for this one; when the run is done it
\* has been called once per date.  Every export and upload under way
\* belongs to the current date.  At the cleanup of a date every upload call
\* made for it has returned, and a date skipped because it already exists
\* or has no content hands cleanup the empty list.
C29_OneDateAtATimeCleanupOnce ==
    /\ cleanup_calls = date_idx - 1
    /\ pc = "check_existing" => checked = 1..(date_idx - 1)
    /\ pc \notin {"check_existing", "done"} => checked = 1..date_idx
    /\ pc = "done" => (checked = 1..num_dates /\ cleanup_calls = num_dates)
    /\ \A k \in 1..Len(upload_calls) : DateOf(upload_calls[k]) = date_idx
    /\ \A k \in 1..Len(exports) : DateOf(exports[k][1]) = date_idx
    /\ pc = "cleanup" =>
         /\ Len(upload_results) = Len(upload_calls)
         /\ upload_result = "none" <=> upload_calls = << >>
         /\ (AlreadyExists \/ NoContent) => files_created = << >>
    /\ pc \in {"check_existing", "done"} =>
         (upload_calls = << >> /\ exports = << >> /\ upload_result = "none")

\* The second date is skipped because it already exists, after one cleanup
\* for the first date; cleanup is about to be called with the empty list.
C29_Witness ==
    /\ pc = "cleanup"
    /\ date_idx = 2
    /\ cleanup_calls = 1
    /\ AlreadyExists
    /\ files_created = << >>

\* The second date went through three uploads and is at its cleanup.
C29_WitnessUploads ==
    /\ pc = "cleanup"
    /\ date_idx = 2
    /\ cleanup_calls = 1
    /\ Len(upload_results) = 3

(***************************************************************************)
(* The default selection of the dates.                                     *)
(***************************************************************************)
\* Neither --date nor --start-date was given, and the listing was asked for.
DefaultMode ==
    /\ args.date = 0
    /\ args.start_date = 0
    /\ listing_response.status # -1

\* The end of the range: --end-date, or yesterday.
EndDate == IF args.end_date # 0 THEN args.end_date ELSE yesterday

\* The listing answered 200 with a list of audiobooks.
ListingRead == listing_response.status = 200 /\ listing_response.parses

\* The dates of the digest titles of the listing.
DigestDates ==
    {d \in Days :
       \E k \in 1..Len(listing_response.titles) :
          LET title == listing_response.titles[k] IN
          title[1] = "Daily Digest for" /\ title[2] = d}

\* The latest of them.
LastDigestDate == CHOOSE d \in DigestDates : \A e \in DigestDates : e <= d

\* The dates the date loop is going to process: those selected when main
\* goes on to load the engine, none when it has ended before.
DatesProcessed == IF pc = "initialize_tts" THEN dates_to_process ELSE << >>

C30_WitnessNothing ==
    /\ pc = "exited"
    /\ DefaultMode
    /\ ListingRead
    /\ DigestDates # {}
    /\ LastDigestDate = EndDate
    /\ exit_status = 0

\* The listing answers 500: the end date given by --end-date is processed.
C30_WitnessUnreadable ==
    /\ pc = "initialize_tts"
    /\ DefaultMode
    /\ listing_response.status = 500
    /\ args.end_date = 2
    /\ yesterday = 4
    /\ dates_to_process = <<2>>

(***************************************************************************)
(* Whole seconds in the metadata.                                          *)
(***************************************************************************)
\* The start times, in ms from the start of Part k, of the chapters that
\* the metadata of Part k is built from: all chapters of the single file,
\* the chapters retained by the re-slicing of a Part of a split.
LocalStartTimes(k) ==
    IF branch = "single"
      THEN LET chapters == create_chapter_list(total_duration_ms, text_blocks)
           IN {chapters[j].start_time_ms : j \in 1..Len(chapters)}
      ELSE {<<original_chapters[j].start_time_ms[1]
                - part_metadata[k].start_ms * original_chapters[j].start_time_ms[2],
              original_chapters[j].start_time_ms[2]>> :
              j \in ChaptersStartingIn(part_metadata[k].start_ms,
                                       part_metadata[k].start_ms
                                         + part_metadata[k].segment_ms)}

\* C31: in the metadata of every Part (and of the single file)
\* duration_seconds is floor(duration_ms / 1000) of the audio of that Part,
\* every value of the chapter mapping is floor(t / 1000) of the start time
\* t of a chapter of that Part, counted from the start of the Part, and so
\* every value is a non-negative integer not above duration_seconds.
C31_WholeSecondsByTruncation ==
    \A k \in PartsBuilt :
      LET part == part_metadata[k]
          md == part.metadata
      IN /\ md.duration_seconds \in Nat
         /\ 1000 * md.duration_seconds <= part.segment_ms
         /\ part.segment_ms < 1000 * (md.duration_seconds + 1)
         /\ \A v \in DictValues(md.chapters_json) :
               /\ v \in Nat
               /\ v <= md.duration_seconds
               /\ \E t \in LocalStartTimes(k) : IsWholeSecondsFrom(v, t, 0)

\* A single file of 61500 ms whose second chapter starts at 61500 ms: 61 s
\* for the duration and 61 for the chapter.
C31_Witness ==
    /\ branch = "single"
    /\ total_duration_ms = 61500
    /\ text_blocks = <<[title |-> "A", text_len |-> 1],
                       [title |-> "B", text_len |-> 0]>>
    /\ part_metadata[1].metadata.duration_seconds = 61
    /\ part_metadata[1].metadata.chapters_json = <<<<"A", 0>>, <<"B", 61>>>>

\* A Part of a split whose audio is not a whole number of seconds and
\* which holds a chapter that starts in the last, incomplete second.
C31_WitnessPart ==
    /\ branch = "split"
    /\ \E k \in PartsBuilt :
         LET part == part_metadata[k] IN
         /\ part.start_ms > 0
         /\ part.segment_ms % 1000 # 0
         /\ part.metadata.duration_seconds > 0
         /\ part.metadata.duration_seconds
               \in DictValues(part.metadata.chapters_json)

(***************************************************************************)
(* The sleeps of an upload_audiobook call that uses up its attempts.       *)
(***************************************************************************)
RECURSIVE SumOfDelays(_)
SumOfDelays(sleeps) ==
    IF sleeps = << >> THEN 0 ELSE sleeps[1][2] + SumOfDelays(Tail(sleeps))

\* The call made 5 HTTP attempts and each ended in a retriable failure.
AllAttemptsFailedRetriably(tr) ==
    /\ HttpAttempts(tr) = 5
    /\ \A k \in 1..5 : IsRetriableFailure(Posts(tr)[k])

\* C32: a call whose 5 attempts all end in a retriable failure (5xx or
\* transport error) has slept exactly 4 times when it returns, 10, 20, 40
\* and 80 seconds in that order, 150 seconds in total; the k-th sleep lies
\* between the k-th and the (k+1)-th attempt, the trace starts with the
\* first attempt and ends with the fifth request, and the call returns
\* false.
C32_FourSleepsBetweenFiveAttempts ==
    AllAttemptsFailedRetriably(trace) =>
      /\ Len(trace) >= 2
      /\ IsOpen(trace[1])
      /\ IsPost(trace[Len(trace)])
      /\ Len(Sleeps(trace)) = 4
      /\ \A k \in 1..4 : Sleeps(trace)[k] = <<"sleep", C5_Delays[k], TRUE>>
      /\ SumOfDelays(Sleeps(trace)) = 150
      /\ \A p \in 1..Len(trace) :
            IsSleep(trace[p]) =>
               LET k == Len(Sleeps(Prefix(trace, p))) IN
               /\ HttpAttempts(Prefix(trace, p)) = k
               /\ p > 1 /\ IsPost(trace[p - 1])
               /\ p < Len(trace) /\ IsOpen(trace[p + 1])
      /\ UploadRunning => ENABLED UploadExhausted
      /\ UploadReturned => upload_result = "false"

\* Five failed attempts, 5xx and transport errors mixed, and the call has
\* returned false.
C32_Witness ==
    /\ AllAttemptsFailedRetriably(trace)
    /\ UploadReturned
    /\ upload_result = "false"
    /\ Len(trace) = 14
    /\ Is5xx(Posts(trace)[1])
    /\ IsTransportError(Posts(trace)[5])

(***************************************************************************)
(* The time ranges of the Parts of a split, as split_and_upload_chunks     *)
(* (and, with the same arithmetic, generate_and_upload_audio) exports      *)
(* them: exports[k] = <<file, start_ms, end_ms>> for Part k.               *)
(***************************************************************************)
PartsExported == 1..Len(exports)
PartStart(k) == exports[k][2]
PartEnd(k) == exports[k][3]
\* The duration of the audio of Part k: len(audio[start_ms:end_ms]).
PartDuration(k) == SliceLen(PartStart(k), PartEnd(k), total_duration_ms)
\* Every Part of the split has been exported and uploaded.
AllPartsExported == branch = "split" /\ Len(exports) = num_chunks

\* C33 as stated: of the n Parts of a recording of T ms, every Part but the
\* last has a duration of exactly d = ceil(T / n) ms, and the duration of
\* the last Part is at most d and greater than d - n.
C33_PartsOfEqualDuration ==
    branch = "split" =>
      LET d == CeilDiv(total_duration_ms, num_chunks) IN
      \A k \in PartsExported :
         /\ k < num_chunks => PartDuration(k) = d
         /\ k = num_chunks =>
               PartDuration(k) <= d /\ PartDuration(k) > d - num_chunks

\* C34 as stated: for every T >= 0 and n >= 2 the ranges of the n Parts
\* tile [0, T): the first Part starts at 0, each Part starts where the
\* one before it ends, no Part ends before it starts, the last Part ends
\* at T, and every millisecond of [0, T) lies in exactly one Part.
C34_PartsTileTheRecording ==
    branch = "split" =>
      /\ \A k \in PartsExported :
            /\ k = 1 => PartStart(k) = 0
            /\ k > 1 => PartStart(k) = PartEnd(k - 1)
            /\ PartStart(k) <= PartEnd(k)
      /\ AllPartsExported =>
            /\ PartEnd(num_chunks) = total_duration_ms
            /\ \A ms \in 0..(total_duration_ms - 1) :
                  Cardinality({k \in PartsExported :
                                 PartStart(k) <= ms /\ ms < PartEnd(k)}) = 1

\* C35 as stated: when the recording is not empty, every Part that is
\* exported and uploaded has start_ms < end_ms.
C35_NoEmptyPart ==
    (branch = "split" /\ total_duration_ms > 0) =>
       \A k \in PartsExported : PartStart(k) < PartEnd(k)

(***************************************************************************)
(* The chapters of the full list across the Parts of a split.              *)
(***************************************************************************)
\* The for loop of _create_metadata_for_chunk for Part k retains the j-th
\* chapter of the full list.
RetainsChapter(k, j) ==
    RetainedChapters(part_metadata[k].segment_ms, <<original_chapters[j]>>,
                     part_metadata[k].start_ms) # << >>

PartsRetaining(j) == {k \in PartsBuilt : RetainsChapter(k, j)}

RECURSIVE RetainedInParts(_)
\* The number of chapters retained by the Parts 1..k together.
RetainedInParts(k) ==
    IF k = 0 THEN 0
    ELSE Len(part_metadata[k].retained) + RetainedInParts(k - 1)

\* All Parts of the split have been built.
AllPartsBuilt == branch = "split" /\ pc = "md_done"

\* The j-th chapter starts before the end of the recording.
StartsBeforeEnd(j) ==
    original_chapters[j].start_time_ms[1]
       < total_duration_ms * original_chapters[j].start_time_ms[2]

\* C36 as stated: when all Parts of a split are built, every chapter of the
\* full list is retained by the re-slicing of exactly one Part, whatever
\* the block lengths are.
C36_EveryChapterInExactlyOnePart ==
    AllPartsBuilt =>
      /\ \A j \in 1..Len(original_chapters) :
            Cardinality(PartsRetaining(j)) = 1
      /\ RetainedInParts(Len(part_metadata)) = Len(original_chapters)

\* C36 as amended: when all Parts of a split are built, every chapter that
\* starts before the end of the recording is retained by the re-slicing
\* of exactly one Part, a chapter that starts at the end of the recording
\* is retained by none, and no chapter is retained by two Parts.
C36_ChaptersBeforeTheEndInExactlyOnePart ==
    AllPartsBuilt =>
      /\ \A j \in 1..Len(original_chapters) :
            Cardinality(PartsRetaining(j)) = IF StartsBeforeEnd(j) THEN 1 ELSE 0
      /\ RetainedInParts(Len(part_metadata))
            = Cardinality({j \in 1..Len(original_chapters) : StartsBeforeEnd(j)})

\* Two Parts of 100 s: A starts at 0 and is in Part 1, B starts at 50 s and
\* is in Part 2, and the last block, which has no characters, starts at
\* 100 s and is in no Part.
C36_Witness ==
    /\ AllPartsBuilt
    /\ total_duration_ms = 100000
    /\ num_chunks = 2
    /\ text_blocks = <<[title |-> "A", text_len |-> 1],
                       [title |-> "B", text_len |-> 1],
                       [title |-> "B", text_len |-> 0]>>
    /\ PartsRetaining(1) = {1}
    /\ PartsRetaining(2) = {2}
    /\ PartsRetaining(3) = {}
    /\ Len(part_metadata[2].retained) = 1

(***************************************************************************)
(* Running main again over a date that was uploaded.                       *)
(***************************************************************************)
\* The numbers of Parts a date can be split into.
PartCounts == {NumChunks(size_mb) : size_mb \in Mp3SizesMB} \ {1}

\* The remote store holds the single file of date d under its title.
UploadedAsOneFile(d) == BaseTitle(d) \in stored_titles

\* The remote store holds all n Parts of date d under their titles.
UploadedAsParts(d, n) ==
    \A part \in 1..n : ChunkTitle(d, part, n) \in stored_titles

\* The later run has made the existence check of the date it is at, and
\* the store lists that date as uploaded in full by the first run.
RerunOfUploadedDate ==
    /\ run = 2
    /\ date_idx <= num_dates
    /\ existing_response # NoResponse
    /\ existing_response.titles = stored_titles
    /\ \/ UploadedAsOneFile(date_idx)
       \/ \E n \in PartCounts : UploadedAsParts(date_idx, n)

\* C37 as stated: in a later run over a date whose Parts were all uploaded
\* by the first run, as one file or as n > 1 Parts, and are listed by the
\* remote store under their titles, the existence check skips the date:
\* the date goes to its cleanup with no mail read, nothing synthesized,
\* written or exported and no upload call.
C37_RerunSkipsUploadedDate ==
    RerunOfUploadedDate =>
      /\ pc = "cleanup"
      /\ full_text = "none"
      /\ produced = {}
      /\ exports = << >>
      /\ upload_calls = << >>

(***************************************************************************)
(* The three copies of the upload routine on the same outcomes.            *)
(***************************************************************************)
\* What the k-th attempt of the recorded call met: the event that ended
\* the attempt is its failed open or its request; a request whose body did
\* not parse was followed by a retry (RequestException) or ended the call
\* with an exception (ValueError).
AttemptOutcome(tr, k) ==
    LET p == CHOOSE q \in 1..Len(tr) :
                /\ IsOpen(tr[q])
                /\ Len(Opens(Prefix(tr, q))) = k
        open == tr[p]
    IN IF IsOpenError(open) THEN <<"oserror", 0>>
       ELSE IF IsMissingFile(open) THEN <<"missing", 0>>
       ELSE LET post == tr[p + 1] IN
            IF IsTransportError(post) THEN <<"neterror", 0>>
            ELSE IF post[3] \/ RaisesForStatus(post[2])
              THEN <<"response", post[2]>>
            ELSE IF p + 1 = Len(tr) /\ upload_result = "raised"
              THEN <<"badjson_value", post[2]>>
              ELSE <<"badjson_request", post[2]>>

\* The outcomes of all attempts of the recorded call.
AttemptOutcomes(tr) == [k \in 1..Len(Opens(tr)) |-> AttemptOutcome(tr, k)]

\* What generate_audiobook.upload_audiobook did in the recorded call.
RecordedReturn ==
    UploadReturn(Len(Opens(trace)),
                 [k \in 1..Len(Sleeps(trace)) |-> Sleeps(trace)[k][2]],
                 upload_result)

\* C38: on the outcomes that a call of generate_audiobook.upload_audiobook
\* met, upload_mp3.upload_single_file and test_upload.upload_audiobook make
\* the same number of attempts, sleep the same delays in the same order and
\* end the same way (true, false, or the same uncaught exception).
C38_ThreeCopiesAgree ==
    (UploadReturned /\ pc = "up_return") =>
       /\ upload_single_file(AttemptOutcomes(trace)) = RecordedReturn
       /\ test_upload_upload_audiobook(AttemptOutcomes(trace)) = RecordedReturn

\* A call that met a 5xx, a transport error and a body that did not parse
\* before its upload was accepted: four attempts, three sleeps, true.
C38_Witness ==
    /\ UploadReturned
    /\ upload_result = "true"
    /\ RecordedReturn = UploadReturn(4, <<10, 20, 40>>, "true")
    /\ upload_single_file(AttemptOutcomes(trace)) = RecordedReturn
    /\ \E k \in 1..3 : AttemptOutcome(trace, k)[1] = "neterror"
    /\ \E k \in 1..3 : AttemptOutcome(trace, k)[1] = "badjson_request"
    /\ \E k \in 1..3 : AttemptOutcome(trace, k) = <<"response", 503>>

\* Five retriable failures: all copies give up after the fifth attempt.
C38_WitnessExhausted ==
    /\ UploadReturned
    /\ RecordedReturn = UploadReturn(5, <<10, 20, 40, 80>>, "false")
    /\ test_upload_upload_audiobook(AttemptOutcomes(trace)) = RecordedReturn

(***************************************************************************)
(* The content of the chunks of a text unit.                               *)
(***************************************************************************)
IsNotWhitespace(c) == c \notin Whitespace
\* The characters of a text that are not whitespace, in their order.
NonWhitespace(text) == SelectSeq(text, IsNotWhitespace)

RECURSIVE Joined(_)
\* The chunks one after the other.
Joined(chunks) ==
    IF chunks = << >> THEN << >> ELSE Head(chunks) \o Joined(Tail(chunks))

\* C39: the non-whitespace characters of the returned chunks, taken in
\* output order, are the non-whitespace characters of the input without
\* its URLs, in their original order, and no returned chunk is empty.
C39_SplittingLosesNoContent ==
    pc = "chunker_done" =>
      /\ NonWhitespace(Joined(sub_chunks)) = NonWhitespace(RemoveUrls(chunk))
      /\ \A k \in 1..Len(sub_chunks) : sub_chunks[k] # << >>

\* A unit without a space within the limit, cut in the middle of a word
\* and then at a space: three chunks.
C39_Witness ==
    /\ pc = "chunker_done"
    /\ max_len = 2
    /\ chunk = <<"a", "b", "a", " ", "b">>
    /\ sub_chunks = <<<<"a", "b">>, <<"a">>, <<"b">>>>

\* A unit that holds a URL and whitespace that is not a space: the URL is
\* gone, the rest is split at the limit.
C39_WitnessUrl ==
    /\ pc = "chunker_done"
    /\ Len(sub_chunks) >= 2
    /\ "URL" \in Range(chunk)
    /\ "TAB" \in Range(Joined(sub_chunks))
====
